---- MODULE Spec2Model ----
(***************************************************************************)
(* Model of the guardrailed orchestration core of the analytics assistant: *)
(*   - SqlPolicy.validate and LimitsPolicy (app/policy)                    *)
(*   - SQLSafetyGuardAgent.run and DBExecutorAgent.run (app/agents)        *)
(*   - FallbackOrchestrator.run (app/orchestrator_fallback.py)             *)
(* SQL texts are sequences of one-character strings, so that the policy    *)
(* functions are computed on the characters as the code computes them.     *)
(***************************************************************************)
EXTENDS Integers, Sequences, FiniteSets, TLC

(***************************************************************************)
(* Bounds of the model (not program constants).                            *)
(***************************************************************************)
\* largest configured max_retry_attempts explored in DATA_QA runs
MaxRetryCfg == 3
\* largest configured max_retry_attempts explored in runs of both branches
MaxRunRetry == 2
\* longest list of queries a report plan carries
MaxPlanQueries == 1
\* queries in a report plan when the report branch is followed on its own
MaxReportQueries == 2
\* requests one Orchestrator instance serves one after another
MaxRequests == 2
\* a further request is followed only while the tracer holds at most this
\* many entries
MaxSessionLog == 3
\* chat turns in handle_chat at the same time
MaxTurns == 2
\* largest number of columns / rows the database collaborator returns
MaxDbCols == 2
MaxDbRows == 2
\* number of lexical pieces an input text of the policy functions is built from
MaxPieces == 3
\* largest column / row count and cap given to truncate_result
MaxTableDim == 4
MaxCap == 3

(***************************************************************************)
(* Python helpers                                                          *)
(***************************************************************************)
Min(a, b) == IF a <= b THEN a ELSE b
Max(a, b) == IF a >= b THEN a ELSE b

\* s[:n] of a Python sequence (negative n counts from the end)
PySliceTo(s, n) ==
    IF n >= 0 THEN SubSeq(s, 1, Min(n, Len(s)))
    ELSE SubSeq(s, 1, Max(0, Len(s) + n))

UpperLetters == <<"A","B","C","D","E","F","G","H","I","J","K","L","M",
                  "N","O","P","Q","R","S","T","U","V","W","X","Y","Z">>
LowerLetters == <<"a","b","c","d","e","f","g","h","i","j","k","l","m",
                  "n","o","p","q","r","s","t","u","v","w","x","y","z">>
Digits == <<"0","1","2","3","4","5","6","7","8","9">>

UpperSet == {UpperLetters[i] : i \in 1..26}
LowerSet == {LowerLetters[i] : i \in 1..26}
DigitSet == {Digits[i] : i \in 1..10}
WordCharSet == UpperSet \cup LowerSet \cup DigitSet \cup {"_"}
LowerOf == [c \in UpperSet |-> LowerLetters[CHOOSE i \in 1..26 : UpperLetters[i] = c]]

IsDigit(c) == c \in DigitSet
\* str.lower() on one character
LowerChar(c) == IF c \in UpperSet THEN LowerOf[c] ELSE c
\* str.lower()
Lower(s) == [i \in 1..Len(s) |-> LowerChar(s[i])]
\* \w of the re module
IsWordChar(c) == c \in WordCharSet
\* \s of the re module, and the characters str.strip() removes
IsSpace(c) == c \in {" ", "\t", "\n", "\r"}

\* str.strip()
Strip(s) ==
    LET keep == {i \in 1..Len(s) : ~IsSpace(s[i])}
    IN  IF keep = {} THEN <<>>
        ELSE LET first == CHOOSE i \in keep : \A j \in keep : i <= j
                 last  == CHOOSE i \in keep : \A j \in keep : j <= i
             IN  SubSeq(s, first, last)

\* sub in s
Contains(s, sub) ==
    \E i \in 1..(Len(s) - Len(sub) + 1) : SubSeq(s, i, i + Len(sub) - 1) = sub

\* s.startswith(p)
StartsWith(s, p) == Len(s) >= Len(p) /\ SubSeq(s, 1, Len(p)) = p

\* \b of the re module at the gap before position p (1 <= p <= Len(s)+1)
WordBoundary(s, p) ==
    LET before == p > 1 /\ p - 1 <= Len(s) /\ IsWordChar(s[p - 1])
        after  == p >= 1 /\ p <= Len(s) /\ IsWordChar(s[p])
    IN  before # after

(***************************************************************************)
(* SqlPolicy (app/policy/sql_policy.py)                                    *)
(***************************************************************************)
_DENY_KEYWORDS == <<
    <<"i","n","s","e","r","t">>, <<"u","p","d","a","t","e">>,
    <<"d","e","l","e","t","e">>, <<"m","e","r","g","e">>,
    <<"d","r","o","p">>, <<"a","l","t","e","r">>,
    <<"c","r","e","a","t","e">>, <<"t","r","u","n","c","a","t","e">>,
    <<"g","r","a","n","t">>, <<"r","e","v","o","k","e">>,
    <<"e","x","e","c","u","t","e">>, <<"e","x","e","c">>,
    <<"x","p","_">>, <<"s","p","_">>,
    <<"o","p","e","n","r","o","w","s","e","t">>,
    <<"o","p","e","n","d","a","t","a","s","o","u","r","c","e">> >>

\* a case-sensitive literal match (the pattern compiled without re.IGNORECASE)
MatchAtCaseSensitive(s, i, k) ==
    /\ i >= 1
    /\ i + Len(k) - 1 <= Len(s)
    /\ SubSeq(s, i, i + Len(k) - 1) = k

\* the literal k (lower case) matches s at position i under re.IGNORECASE
MatchAt(s, i, k) ==
    /\ i >= 1
    /\ i + Len(k) - 1 <= Len(s)
    /\ Lower(SubSeq(s, i, i + Len(k) - 1)) = k

\* _DENY_PATTERN.search(s): \b(k1|k2|...)\b, case-insensitive
DenySearch(s) ==
    \E i \in 1..Len(s) : \E n \in 1..Len(_DENY_KEYWORDS) :
        /\ WordBoundary(s, i)
        /\ MatchAt(s, i, _DENY_KEYWORDS[n])
        /\ WordBoundary(s, i + Len(_DENY_KEYWORDS[n]))

\* ";" in s  (the trailing terminator is not exempted)
MultiStatementAny(s) == Contains(s, <<";">>)

\* ";" in s[:-1]
MultiStatement(s) == Contains(PySliceTo(s, -1), <<";">>)

\* "--" in s or "/*" in s or "*/" in s
HasComment(s) ==
    \/ Contains(s, <<"-","-">>)
    \/ Contains(s, <<"/","*">>)
    \/ Contains(s, <<"*","/">>)

\* low.startswith("select") or low.startswith("with")
StartsReadOnly(s) ==
    \/ StartsWith(Lower(s), <<"s","e","l","e","c","t">>)
    \/ StartsWith(Lower(s), <<"w","i","t","h">>)

\* SqlPolicy.validate: the list of violations, empty when the text looks safe
Validate(sql) ==
    LET s == Strip(sql)
    IN  IF s = <<>> THEN <<"Empty SQL">>
        ELSE (IF MultiStatement(s) THEN <<"Multiple statements are not allowed">> ELSE <<>>)
          \o (IF HasComment(s) THEN <<"SQL comments are not allowed">> ELSE <<>>)
          \o (IF ~StartsReadOnly(s) THEN <<"Only SELECT queries are allowed">> ELSE <<>>)
          \o (IF DenySearch(s) THEN <<"DDL/DML or unsafe keyword detected">> ELSE <<>>)

(***************************************************************************)
(* LimitsPolicy (app/policy/limits_policy.py)                              *)
(***************************************************************************)
RECURSIVE IntToStr(_)
\* str(n) of a non-negative int, as the f-strings format max_rows
IntToStr(n) ==
    IF n < 10 THEN <<Digits[n + 1]>>
    ELSE IntToStr(n \div 10) \o <<Digits[(n % 10) + 1]>>

\* str.rstrip(";")
RStripSemi(s) ==
    LET keep == {i \in 1..Len(s) : s[i] # ";"}
    IN  IF keep = {} THEN <<>>
        ELSE SubSeq(s, 1, CHOOSE i \in keep : \A j \in keep : j <= i)

\* end of the greedy \s* run that starts at position p
SkipSpaces(s, p) ==
    CHOOSE q \in p..(Len(s) + 1) :
        /\ \A j \in p..(q - 1) : IsSpace(s[j])
        /\ (q <= Len(s) => ~IsSpace(s[q]))

\* end of the greedy \d* run that starts at position p
SkipDigits(s, p) ==
    CHOOSE q \in p..(Len(s) + 1) :
        /\ \A j \in p..(q - 1) : IsDigit(s[j])
        /\ (q <= Len(s) => ~IsDigit(s[q]))

\* re.search(r"\btop\s+\(?\s*\d+\s*\)?", s, re.IGNORECASE)
TopSearch(s) ==
    \E i \in 1..Len(s) :
        /\ WordBoundary(s, i)
        /\ MatchAt(s, i, <<"t","o","p">>)
        /\ LET q == SkipSpaces(s, i + 3)
           IN  /\ q > i + 3
               /\ q <= Len(s)
               /\ \/ IsDigit(s[q])
                  \/ /\ s[q] = "("
                     /\ LET r == SkipSpaces(s, q + 1)
                        IN  r <= Len(s) /\ IsDigit(s[r])

\* re.search(r"\blimit\s+\d+\b", s, re.IGNORECASE)
LimitSearch(s) ==
    \E i \in 1..Len(s) :
        /\ WordBoundary(s, i)
        /\ MatchAt(s, i, <<"l","i","m","i","t">>)
        /\ LET q == SkipSpaces(s, i + 5)
           IN  /\ q > i + 5
               /\ q <= Len(s)
               /\ IsDigit(s[q])
               /\ WordBoundary(s, SkipDigits(s, q))

\* _select_re.sub(f"SELECT TOP ({max_rows}) ", s, count=1) with
\* _select_re = ^\s*select\s+ (IGNORECASE)
SelectSub(s, max_rows) ==
    LET p == SkipSpaces(s, 1)
        q == SkipSpaces(s, p + 6)
    IN  IF MatchAt(s, p, <<"s","e","l","e","c","t">>) /\ q > p + 6
        THEN <<"S","E","L","E","C","T"," ","T","O","P"," ","(">>
             \o IntToStr(max_rows) \o <<")"," ">> \o SubSeq(s, q, Len(s))
        ELSE s

\* LimitsPolicy.apply_row_limit
apply_row_limit(sql, backend, max_rows) ==
    LET s == RStripSemi(Strip(sql))
    IN  IF backend = "sqlserver"
        THEN IF TopSearch(s) THEN s ELSE SelectSub(s, max_rows)
        ELSE IF LimitSearch(s) THEN s
             ELSE s \o <<" ","L","I","M","I","T"," ">> \o IntToStr(max_rows)

\* len(rows) > max_rows, with the comparison weakened to >= + 1
RowsOverLoose(n, max_rows) == n > max_rows + 1

\* len(rows) > max_rows
RowsOver(n, max_rows) == n > max_rows

\* LimitsPolicy.truncate_result
truncate_result(columns, rows, max_cols, max_rows) ==
    LET colsOver == Len(columns) > max_cols
        columns1 == IF colsOver THEN PySliceTo(columns, max_cols) ELSE columns
        rows1    == IF colsOver
                    THEN [i \in 1..Len(rows) |-> PySliceTo(rows[i], max_cols)]
                    ELSE rows
        rowsOver == RowsOver(Len(rows1), max_rows)
        rows2    == IF rowsOver THEN PySliceTo(rows1, max_rows) ELSE rows1
    IN  [columns |-> columns1, rows |-> rows2, truncated |-> (colsOver \/ rowsOver)]

(***************************************************************************)
(* Values shared by the agents and the orchestrator                        *)
(***************************************************************************)
\* None where the code holds an Optional[str]
NoneStr == <<"<None>">>
\* "not sql" of Python for an Optional[str]
Falsy(sql) == sql = NoneStr \/ sql = <<>>

\* SQL texts the language-model collaborator answers with
SqlA == <<"s","e","l","e","c","t"," ","a">>
SqlB == <<"S","E","L","E","C","T"," ","b",";">>
SqlDel == <<"D","E","L","E","T","E"," ","x">>
\* sql_server / sql_sqlite of a generated or planned query ("" when missing)
SqlPool == {<<>>, SqlA, SqlDel}
\* patched_sql_server / patched_sql_sqlite of a triage answer (None when
\* missing, "" when empty)
PatchPool == {NoneStr, <<>>, SqlB, SqlDel}

\* Intent literal of app/contracts/models.py
Intents == {"DATA_QA", "ANALYTICS_REPORT", "GENERAL_QA", "OUT_OF_SCOPE"}

\* the UI settings a request carries (caps are at least 1 in the UI)
UISettingsSet ==
    [debug : BOOLEAN, max_rows_ui : {1, 10}, max_cols_ui : {1},
     backend : {"sqlserver", "sqlite"}]

\* the settings of the requests followed through both branches
RunUISettingsSet ==
    [debug : BOOLEAN, max_rows_ui : {1}, max_cols_ui : {1},
     backend : {"sqlserver", "sqlite"}]

\* at most this many report queries are taken from a plan (qlist[:5])
ReportQueryCap == 5
\* at most this many clarifying questions are returned ([:5])
QuestionCap == 5

(***************************************************************************)
(* SQLSafetyGuardAgent.run (app/agents/sql_safety_guard.py)                *)
(***************************************************************************)
\* plan.sql_server if backend == "sqlserver" else plan.sql_sqlite
SelectedSql(plan, backend) ==
    IF backend = "sqlserver" THEN plan.sql_server ELSE plan.sql_sqlite

\* the user_message of an unsafe report
UnsafeUserMessage ==
    "Your request would require an unsafe query. Please rephrase as a read-only analysis question."

\* the guard with the validation of the selected SQL skipped
SafetyGuardNoValidate(plan, settings) ==
    [is_safe |-> TRUE,
     safe_sql_server |-> apply_row_limit(plan.sql_server, "sqlserver", settings.max_rows_ui),
     safe_sql_sqlite |-> apply_row_limit(plan.sql_sqlite, "sqlite", settings.max_rows_ui),
     violations |-> <<>>,
     user_message |-> "None"]

\* the guard validating the SQL Server text whatever the backend
SafetyGuardValidatesOther(plan, settings) ==
    LET violations == Validate(plan.sql_server)
    IN  IF violations # <<>>
        THEN [is_safe |-> FALSE,
              safe_sql_server |-> NoneStr,
              safe_sql_sqlite |-> NoneStr,
              violations |-> violations,
              user_message |-> UnsafeUserMessage]
        ELSE [is_safe |-> TRUE,
              safe_sql_server |-> apply_row_limit(plan.sql_server, "sqlserver", settings.max_rows_ui),
              safe_sql_sqlite |-> apply_row_limit(plan.sql_sqlite, "sqlite", settings.max_rows_ui),
              violations |-> <<>>,
              user_message |-> "None"]

\* SQLSafetyGuardAgent.run on a plan that is not None
SafetyGuard(plan, settings) ==
    LET violations == Validate(SelectedSql(plan, settings.backend))
    IN  IF violations # <<>>
        THEN [is_safe |-> FALSE,
              safe_sql_server |-> NoneStr,
              safe_sql_sqlite |-> NoneStr,
              violations |-> violations,
              user_message |-> UnsafeUserMessage]
        ELSE [is_safe |-> TRUE,
              safe_sql_server |-> apply_row_limit(plan.sql_server, "sqlserver", settings.max_rows_ui),
              safe_sql_sqlite |-> apply_row_limit(plan.sql_sqlite, "sqlite", settings.max_rows_ui),
              violations |-> <<>>,
              user_message |-> "None"]

(***************************************************************************)
(* DBExecutorAgent.run (app/agents/db_executor.py)                         *)
(***************************************************************************)
\* the executor reading the safe SQL of the other backend
SafeSqlForSwapped(rep, backend) ==
    IF backend = "sqlserver" THEN rep.safe_sql_sqlite ELSE rep.safe_sql_server

\* ctx.safety.safe_sql_server if backend == "sqlserver" else safe_sql_sqlite
SafeSqlFor(rep, backend) ==
    IF backend = "sqlserver" THEN rep.safe_sql_server ELSE rep.safe_sql_sqlite

\* the two early raises of DBExecutorAgent.run: no safe report, or no SQL
ExecutorRefuses(saf, backend) ==
    \/ saf = <<>>
    \/ ~saf[1].is_safe
    \/ Falsy(SafeSqlFor(saf[1], backend))

\* shapes (columns, rows) of the tables the database collaborator returns:
\* empty, within the caps, and the largest
DbShapes == {<<0, 0>>, <<1, 1>>, <<MaxDbCols, MaxDbRows>>}

\* a rectangular table of nc columns and nr rows as the database returns it
DbColumns(nc) == [c \in 1..nc |-> c]
DbRows(nc, nr) == [r \in 1..nr |-> [c \in 1..nc |-> <<r, c>>]]

\* the QueryResult built from the collaborator's table as it came
MakeQueryResultRaw(nc, nr, settings) ==
    [columns |-> DbColumns(nc), rows |-> DbRows(nc, nr),
     row_count_returned |-> nr, truncated |-> FALSE]

\* the QueryResult built from the collaborator's table
MakeQueryResult(nc, nr, settings) ==
    LET t == truncate_result(DbColumns(nc), DbRows(nc, nr),
                             settings.max_cols_ui, settings.max_rows_ui)
    IN  [columns |-> t.columns, rows |-> t.rows,
         row_count_returned |-> Len(t.rows), truncated |-> t.truncated]

(***************************************************************************)
(* State                                                                   *)
(***************************************************************************)
VARIABLES
    pc,                  \* position of FallbackOrchestrator.run
    max_retry_attempts,  \* FallbackOrchestrator.max_retry_attempts
    ui,                  \* req.ui
    intent,              \* ctx.intent
    grounding,           \* ctx.grounding
    sql_plan,            \* ctx.sql_plan (<<>> is None)
    safety,              \* ctx.safety (<<>> is None)
    query_result,        \* ctx.query_result (<<>> is None)
    attempt,             \* the local counter of the retry loop
    err,                 \* the exception e caught by the retry loop
    traces,              \* tracer.traces
    pending,             \* report query specs not yet processed
    executed,            \* the executed list of the report branch
    response,            \* the ChatResponse returned (<<>> while running)
    db,                  \* the database collaborator's calls in the current retry loop
    safety_stale,        \* the plan was assigned after the last safety report
    call,                \* a call of a policy function: its arguments
    ret,                 \* that call's result
    viz,                 \* a call of run_viz_code: parent, worker process and queue
    orch,                \* Orchestrator.run: the request it serves and its locals
    chat                 \* chat turns in handle_chat at the same time, and the heap

cfgVars == <<max_retry_attempts, ui>>
ctxVars == <<intent, grounding, sql_plan, safety, query_result>>
pureVars == <<call, ret, viz, orch, chat>>
vars == <<pc, max_retry_attempts, ui, intent, grounding, sql_plan, safety,
          query_result, attempt, err, traces, pending, executed, response,
          db, safety_stale, call, ret, viz, orch, chat>>

NoCall == [fn |-> "none", sql |-> <<>>, backend |-> "none", columns |-> <<>>,
           rows |-> <<>>, max_cols |-> 0, max_rows |-> 0]
NoRet == [done |-> FALSE, violations |-> <<>>, columns |-> <<>>, rows |-> <<>>,
          truncated |-> FALSE, text |-> NoneStr, applied |-> 0, again |-> NoneStr]

\* no call of run_viz_code in progress
NoViz == [pc |-> "idle", code |-> [static |-> "clean", run |-> "finishes",
                                   fig |-> "assigned", sigterm |-> "default"],
          worker |-> "none", queue |-> <<>>, executed |-> 0, term_sent |-> FALSE,
          found_running |-> FALSE, at_join |-> "none", results |-> <<>>]

\* Orchestrator.run is not in progress (the fallback orchestrator runs alone)
NoOrch == [greeting |-> FALSE, confirm |-> FALSE, selected_intent |-> "None",
           intent_key |-> "None", ans |-> <<>>, fallback_runs |-> 0,
           sandbox_runs |-> 0, requests |-> 0, trace_base |-> 0,
           table |-> <<>>, sandbox_out |-> "None", render_runs |-> 0,
           fig |-> "None"]

\* no concurrent chat turns are followed
NoChat == [turn |-> <<>>, tracers |-> <<>>, contexts |-> <<>>]

\* no call of the database collaborator in the current retry loop yet
NoDbCalls == [calls |-> 0, fails |-> 0, oks |-> 0, last_sql |-> NoneStr]

\* a tracer that does not record the error_triage step
TraceAddDropped(log, step, payload) ==
    IF step = "error_triage" THEN log ELSE Append(log, [step |-> step, payload |-> payload])

\* tracer.add(step, payload)
TraceAdd(log, step, payload) == Append(log, [step |-> step, payload |-> payload])

\* the traces Orchestrator.run has added when it hands over to the fallback
\* lane ("meta", "routing"); empty when the fallback orchestrator runs alone
TracePrefixes ==
    {<<>>, <<[step |-> "meta", payload |-> "-"], [step |-> "routing", payload |-> "fallback"]>>}

\* a ChatResponse that carries the traces whatever req.ui.debug says
ChatResponseAlwaysTraced(status, answer, log, questions, rep, hasResult) ==
    [status |-> status,
     answer |-> answer,
     traces |-> [present |-> TRUE, entries |-> log],
     clarifying_questions |-> questions,
     sql_server |-> IF rep = <<>> THEN NoneStr ELSE rep[1].safe_sql_server,
     sql_sqlite |-> IF rep = <<>> THEN NoneStr ELSE rep[1].safe_sql_sqlite,
     has_result |-> hasResult]

\* a ChatResponse; traces are attached only when req.ui.debug
ChatResponse(status, answer, log, questions, rep, hasResult) ==
    [status |-> status,
     answer |-> answer,
     traces |-> IF ui.debug THEN [present |-> TRUE, entries |-> log]
                ELSE [present |-> FALSE, entries |-> <<>>],
     clarifying_questions |-> questions,
     sql_server |-> IF rep = <<>> THEN NoneStr ELSE rep[1].safe_sql_server,
     sql_sqlite |-> IF rep = <<>> THEN NoneStr ELSE rep[1].safe_sql_sqlite,
     has_result |-> hasResult]

\* attempt += 1
NextAttempt(a) == a + 1

\* the cap compared with > instead of >=
RetryExhaustedLate(a, m) == a > m

\* attempt >= self.max_retry_attempts
RetryExhausted(a, m) == a >= m

\* the patch assigned whether or not the triage result supplies one
ApplyPatchUnconditional(plan, ps, pl) ==
    [plan EXCEPT !.sql_server = ps, !.sql_sqlite = pl]

\* if triage.get("patched_sql_server"): ... ; if triage.get("patched_sql_sqlite"): ...
ApplyPatch(plan, ps, pl) ==
    [plan EXCEPT !.sql_server = IF Falsy(ps) THEN @ ELSE ps,
                 !.sql_sqlite = IF Falsy(pl) THEN @ ELSE pl]

(***************************************************************************)
(* Init: a FallbackOrchestrator about to process one request               *)
(***************************************************************************)
InitWith(retries, settings, prefixes) ==
    /\ pc = "intent_router"
    /\ max_retry_attempts \in retries
    /\ ui \in settings
    /\ intent = "None"
    /\ grounding = "None"
    /\ sql_plan = <<>>
    /\ safety = <<>>
    /\ query_result = <<>>
    /\ attempt = 0
    /\ err = "None"
    /\ traces \in prefixes
    /\ pending = 0
    /\ executed = <<>>
    /\ response = <<>>
    /\ db = NoDbCalls
    /\ safety_stale = FALSE
    /\ call = NoCall
    /\ ret = NoRet
    /\ viz = NoViz
    /\ orch = NoOrch
    /\ chat = NoChat

\* a request of any kind, processed by a DATA_QA run
Init == InitWith(0..MaxRetryCfg, UISettingsSet, TracePrefixes)

\* a request handed over by Orchestrator.run, followed through both branches
InitRun == InitWith(0..MaxRunRetry, RunUISettingsSet, {<<>>})

(***************************************************************************)
(* FallbackOrchestrator.run, steps common to both branches                 *)
(***************************************************************************)
\* a collaborator call raises: nothing in run() catches it
Raise ==
    /\ pc' = "raised"
    /\ UNCHANGED <<cfgVars, ctxVars, attempt, err, traces, pending, executed,
                   response, db, safety_stale, pureVars>>

\* 1) Intent: call_json(intent_router), intent_obj.get("intent", "DATA_QA")
IntentStep ==
    /\ pc = "intent_router"
    /\ \/ Raise
       \/ \E out \in {"null", "no_key", "SMALL_TALK"} \cup Intents :
            /\ intent' = IF out \in {"null", "no_key"} THEN "DATA_QA" ELSE out
            /\ traces' = TraceAdd(traces, "intent_router", "-")
            /\ pc' = "metadata_retriever"
            /\ UNCHANGED <<cfgVars, grounding, sql_plan, safety, query_result,
                           attempt, err, pending, executed, response, db,
                           safety_stale, pureVars>>

\* 2) Grounding: metadata_retriever.run(ctx); an empty pack is a valid pack
GroundingStep ==
    /\ pc = "metadata_retriever"
    /\ \/ Raise
       \/ /\ grounding' = "pack"
            /\ traces' = TraceAdd(traces, "metadata_retriever", "-")
            /\ pc' = "requirement_clarity"
            /\ UNCHANGED <<cfgVars, intent, sql_plan, safety, query_result,
                           attempt, err, pending, executed, response, db,
                           safety_stale, pureVars>>

\* the answers of the requirement_clarity agent: no JSON object ("null"), an
\* object without is_clear ("no_key"), is_clear true ("clear"), false
\* ("unclear"), JSON null ("json_null"), a non-empty string ("text")
ClarityAnswers == {"null", "no_key", "clear", "unclear", "json_null", "text"}

\* a clarity check whose default is unclear
IsClearStrict(out) ==
    IF out \in {"null", "no_key"} THEN FALSE
    ELSE IF out = "clear" THEN TRUE
    ELSE IF out = "unclear" THEN FALSE
    ELSE IF out = "json_null" THEN FALSE
    ELSE TRUE

\* bool((c.json_obj or {"is_clear": True}).get("is_clear", True))
IsClear(out) ==
    IF out \in {"null", "no_key"} THEN TRUE
    ELSE IF out = "clear" THEN TRUE
    ELSE IF out = "unclear" THEN FALSE
    ELSE IF out = "json_null" THEN FALSE
    ELSE TRUE

\* a variant in which only the DATA_QA label takes the single-query branch
AfterClarityByLabel(i) ==
    IF i = "DATA_QA" THEN "sql_generator" ELSE "report_planner"

\* if intent == "ANALYTICS_REPORT": the report branch; every other value falls
\* through to the single-query branch
AfterClarity(i) ==
    IF i = "ANALYTICS_REPORT" THEN "report_planner" ELSE "sql_generator"

\* 3) Clarity check: unclear ends the run, otherwise the branch is chosen by
\* intent == "ANALYTICS_REPORT". The trace payload is the clarity object; it
\* is kept in the log only when verdict is set.
ClarityStepTracing(verdict) ==
    /\ pc = "requirement_clarity"
    /\ \/ Raise
       \/ \E out \in ClarityAnswers :
          \E nq \in {0, QuestionCap + 1} :
            LET log == TraceAdd(traces, "requirement_clarity",
                                IF verdict THEN out ELSE "-")
            IN  /\ traces' = log
                /\ IF ~IsClear(out)
                   THEN /\ response' = <<ChatResponse("need_clarification",
                                           <<"I need a bit more detail">>, log,
                                           Min(nq, QuestionCap), <<>>, FALSE)>>
                        /\ pc' = "done"
                   ELSE /\ response' = response
                        /\ pc' = AfterClarity(intent)
                /\ UNCHANGED <<cfgVars, ctxVars, attempt, err, pending,
                               executed, db, safety_stale, pureVars>>

ClarityStep == ClarityStepTracing(FALSE)

(***************************************************************************)
(* FallbackOrchestrator.run, DATA_QA path                                  *)
(***************************************************************************)
\* SQL generation: call_json(sql_generator) and the SqlPlan built from it
SqlGeneratorStep ==
    /\ pc = "sql_generator"
    /\ \/ Raise
       \/ \E ss \in SqlPool, sl \in SqlPool :
            /\ sql_plan' = <<[sql_server |-> ss, sql_sqlite |-> sl,
                              used_tables |-> "generated", notes |-> "generated"]>>
            /\ safety_stale' = TRUE
            /\ traces' = TraceAdd(traces, "sql_generator", "-")
            /\ pc' = "sql_safety"
            /\ UNCHANGED <<cfgVars, intent, grounding, safety, query_result,
                           attempt, err, pending, executed, response, db, pureVars>>

\* ctx.safety = self.sql_safety.run(ctx) on the generated plan; unsafe ends
\* the run blocked, safe enters the retry loop with attempt = 0
SafetyCheckStep ==
    /\ pc = "sql_safety"
    /\ LET rep == SafetyGuard(sql_plan[1], ui)
           log == TraceAdd(traces, "sql_safety_guard",
                           IF rep.is_safe THEN "safe" ELSE "unsafe")
       IN  /\ safety' = <<rep>>
           /\ safety_stale' = FALSE
           /\ traces' = log
           /\ IF ~rep.is_safe
              THEN /\ response' = <<ChatResponse("blocked", <<rep.user_message>>,
                                                 log, 0, <<>>, FALSE)>>
                   /\ pc' = "done"
                   /\ attempt' = attempt
              ELSE /\ response' = response
                   /\ pc' = "db_executor"
                   /\ attempt' = 0
    /\ db' = NoDbCalls
    /\ UNCHANGED <<cfgVars, intent, grounding, sql_plan, query_result, err,
                   pending, executed, pureVars>>

\* self.db.execute(sql, ...) is called with the safe SQL of the report in force
DbCalled(ok) ==
    db' = [calls |-> db.calls + 1,
           fails |-> db.fails + (IF ok THEN 0 ELSE 1),
           oks |-> db.oks + (IF ok THEN 1 ELSE 0),
           last_sql |-> SafeSqlFor(safety[1], ui.backend)]

\* db_executor.run(ctx) returns: the table is truncated and traced, and the
\* retry loop is left
ExecuteOk ==
    /\ pc = "db_executor"
    /\ ~ExecutorRefuses(safety, ui.backend)
    /\ \E shape \in DbShapes :
         query_result' = <<MakeQueryResult(shape[1], shape[2], ui)>>
    /\ DbCalled(TRUE)
    /\ traces' = TraceAdd(traces, "db_executor", "-")
    /\ pc' = "interpret_result"
    /\ UNCHANGED <<cfgVars, intent, grounding, sql_plan, safety, attempt, err,
                   pending, executed, response, safety_stale, pureVars>>

\* db_executor.run(ctx) raises: the executor refuses (ToolError, the database
\* is not called), or the database call fails or times out
ExecutorRaises(e) ==
    IF ExecutorRefuses(safety, ui.backend)
    THEN e = "ToolError" /\ db' = db
    ELSE e = "db_error" /\ DbCalled(FALSE)

\* except Exception as e: attempt += 1, then the cap is tested before triage
ExecuteFail ==
    /\ pc = "db_executor"
    /\ \E e \in {"ToolError", "db_error"} :
         /\ ExecutorRaises(e)
         /\ attempt' = NextAttempt(attempt)
         /\ IF RetryExhausted(NextAttempt(attempt), max_retry_attempts)
            THEN /\ response' = <<ChatResponse("error",
                                    <<"Query failed after ", IntToStr(max_retry_attempts), " attempts: ", e>>,
                                    traces, 0, <<>>, FALSE)>>
                 /\ pc' = "done"
                 /\ err' = "None"
            ELSE /\ response' = response
                 /\ pc' = "error_triage"
                 /\ err' = e
    /\ UNCHANGED <<cfgVars, ctxVars, traces, pending, executed, safety_stale,
                   pureVars>>

\* an answer of the error_triage agent: the action, the two patches, whether
\* a user_message is given, and the number of clarifying questions
TriageAnswer(action, ps, pl, msg, nq) ==
    [action |-> action, patched_sql_server |-> ps, patched_sql_sqlite |-> pl,
     user_message |-> msg, questions |-> nq]

\* the answers of the error_triage agent ("null": no JSON object, "no_key": an
\* object without action, "IGNORE": an action outside the three)
TriageAnswers ==
    {TriageAnswer("RETRY_WITH_PATCH", ps, pl, "None", 0) : ps \in PatchPool, pl \in PatchPool}
    \cup {TriageAnswer("ASK_CLARIFICATION", NoneStr, NoneStr, m, nq) :
            m \in {"None", "triage_user_message"}, nq \in {0, QuestionCap + 1}}
    \cup {TriageAnswer(a, NoneStr, NoneStr, m, 0) :
            a \in {"STOP", "IGNORE", "no_key"}, m \in {"None", "triage_user_message"}}
    \cup {TriageAnswer("null", NoneStr, NoneStr, "None", 0)}

\* a branch that asks for clarification on any action it does not know
TriageActionUnknownAsks(ans) ==
    IF ans.action = "RETRY_WITH_PATCH" THEN "RETRY_WITH_PATCH"
    ELSE IF ans.action \in {"STOP", "null"} THEN "STOP"
    ELSE "ASK_CLARIFICATION"

\* the action as the traced triage object shows it: json_obj or
\* {"action": "STOP"} puts STOP in place of an answer that is no JSON object
TracedAction(ans) == IF ans.action = "null" THEN "STOP" ELSE ans.action

\* what the three-way branch on triage.get("action", "STOP") does, with
\* json_obj or {"action": "STOP"}
TriageAction(ans) ==
    IF ans.action \in {"RETRY_WITH_PATCH", "ASK_CLARIFICATION"} THEN ans.action ELSE "STOP"

\* a need_clarification answer that appends the caught exception's text
ClarificationAnswerWithError(ans, e) ==
    IF ans.user_message = "None"
    THEN <<"I need more detail.", e>> ELSE <<ans.user_message, e>>

\* answer=triage.get("user_message", "I need more detail.")
ClarificationAnswer(ans, e) ==
    IF ans.user_message = "None"
    THEN <<"I need more detail.">> ELSE <<ans.user_message>>

\* a loop that goes back to the executor without the safety check
AfterTriageNoRecheck(action) ==
    IF action = "RETRY_WITH_PATCH" THEN "db_executor" ELSE "done"

\* where the DATA_QA retry loop goes after triage: RETRY_WITH_PATCH patches
\* the plan and runs the safety guard, the other actions return
AfterTriage(action) ==
    IF action = "RETRY_WITH_PATCH" THEN "patch_safety" ELSE "done"

\* self._trace("error_triage", triage): the entry of a triage answer; the
\* patch texts of the triage object are kept in the log only when patches is
\* set
TriageTraceAdd(log, payload, ans, patches) ==
    IF patches
    THEN Append(log, [step |-> "error_triage", payload |-> payload,
                      patched_sql_server |-> ans.patched_sql_server,
                      patched_sql_sqlite |-> ans.patched_sql_sqlite])
    ELSE TraceAdd(log, "error_triage", payload)

\* error triage of the DATA_QA retry loop
TriageStepTracing(patches) ==
    /\ pc = "error_triage"
    /\ \/ Raise
       \/ \E ans \in TriageAnswers :
            LET action == TriageAction(ans)
                log == TriageTraceAdd(traces, TracedAction(ans), ans, patches)
            IN  /\ traces' = log
                /\ err' = "None"
                /\ IF action = "RETRY_WITH_PATCH"
                   THEN /\ sql_plan' = <<ApplyPatch(sql_plan[1],
                                           ans.patched_sql_server, ans.patched_sql_sqlite)>>
                        /\ safety_stale' = TRUE
                        /\ response' = response
                        /\ pc' = AfterTriage(action)
                   ELSE /\ sql_plan' = sql_plan
                        /\ safety_stale' = safety_stale
                        /\ pc' = AfterTriage(action)
                        /\ response' =
                             IF action = "ASK_CLARIFICATION"
                             THEN <<ChatResponse("need_clarification",
                                      ClarificationAnswer(ans, err),
                                      log, Min(ans.questions, QuestionCap), <<>>, FALSE)>>
                             ELSE <<ChatResponse("error",
                                      IF ans.user_message = "None"
                                      THEN <<"Query failed", err>> ELSE <<ans.user_message>>,
                                      log, 0, <<>>, FALSE)>>
                /\ UNCHANGED <<cfgVars, intent, grounding, safety, query_result,
                               attempt, pending, executed, db, pureVars>>

TriageStep == TriageStepTracing(FALSE)

\* the safety check of the patched plan: unsafe ends the run blocked, safe
\* continues the retry loop
PatchSafetyCheckStep ==
    /\ pc = "patch_safety"
    /\ LET rep == SafetyGuard(sql_plan[1], ui)
           log == TraceAdd(traces, "sql_safety_guard",
                           IF rep.is_safe THEN "safe" ELSE "unsafe")
       IN  /\ safety' = <<rep>>
           /\ safety_stale' = FALSE
           /\ traces' = log
           /\ IF ~rep.is_safe
              THEN /\ response' = <<ChatResponse("blocked",
                                      <<"Patched SQL blocked by policy.">>,
                                      log, 0, <<>>, FALSE)>>
                   /\ pc' = "done"
              ELSE /\ response' = response
                   /\ pc' = "db_executor"
    /\ UNCHANGED <<cfgVars, intent, grounding, sql_plan, query_result, attempt,
                   err, pending, executed, db, pureVars>>

\* interpretation of the result and the ok response
InterpretStep ==
    /\ pc = "interpret_result"
    /\ \/ Raise
       \/ LET log == TraceAdd(traces, "interpret_result", "-")
          IN  /\ traces' = log
              /\ response' = <<ChatResponse("ok", <<"interpretation">>, log, 0,
                                            safety, TRUE)>>
              /\ pc' = "done"
              /\ UNCHANGED <<cfgVars, ctxVars, attempt, err, pending, executed,
                             db, safety_stale, pureVars>>

(***************************************************************************)
(* FallbackOrchestrator.run, ANALYTICS_REPORT path                         *)
(***************************************************************************)
\* executed.append({"name": ..., "error": ..., "preview": ""})
ExecutedError(list, e) == Append(list, [outcome |-> "error", error |-> e])

\* the report plan: at most ReportQueryCap of its queries become query specs.
\* The SQL texts of a spec are fixed by the planner's answer; they are drawn
\* when the spec is reached, which gives the same runs.
ReportPlannerStepUpTo(maxq) ==
    /\ pc = "report_planner"
    /\ \/ Raise
       \/ \E n \in 0..maxq :
            /\ pending' = Min(n, ReportQueryCap)
            /\ executed' = <<>>
            /\ traces' = TraceAdd(traces, "report_planner", "-")
            /\ pc' = "report_next"
            /\ UNCHANGED <<cfgVars, ctxVars, attempt, err, response, db,
                           safety_stale, pureVars>>

ReportPlannerStep == ReportPlannerStepUpTo(MaxPlanQueries)

\* for spec in query_specs: the spec's plan and its safety check; unsafe is
\* recorded and the next spec is taken, safe enters this query's retry loop
\* with attempt = 0
ReportQueryStart ==
    /\ pc = "report_next"
    /\ pending > 0
    /\ \E ss \in SqlPool, sl \in SqlPool :
         LET plan == [sql_server |-> ss, sql_sqlite |-> sl,
                      used_tables |-> "none", notes |-> "report_query"]
             rep == SafetyGuard(plan, ui)
         IN  /\ sql_plan' = <<plan>>
             /\ safety' = <<rep>>
             /\ traces' = TraceAdd(traces, "sql_safety_guard",
                                   IF rep.is_safe THEN "safe" ELSE "unsafe")
             /\ IF ~rep.is_safe
                THEN /\ executed' = ExecutedError(executed, "Blocked by SQL policy")
                     /\ pc' = "report_next"
                     /\ attempt' = attempt
                ELSE /\ executed' = executed
                     /\ pc' = "report_executor"
                     /\ attempt' = 0
    /\ safety_stale' = FALSE
    /\ pending' = pending - 1
    /\ db' = NoDbCalls
    /\ UNCHANGED <<cfgVars, intent, grounding, query_result, err, response,
                   pureVars>>

\* what the except clause of a report query's retry loop does with e
ReportFailure(e) ==
    /\ attempt' = NextAttempt(attempt)
    /\ IF RetryExhausted(NextAttempt(attempt), max_retry_attempts)
       THEN /\ executed' = ExecutedError(executed, e)
            /\ pc' = "report_next"
            /\ err' = "None"
       ELSE /\ executed' = executed
            /\ pc' = "report_triage"
            /\ err' = e

\* db_executor.run(ctx) returns inside the report loop: the result is stored
\* and traced, then building the executed entry reads the names viz and
\* fig_obj, which are bound nowhere: NameError, caught by the same except
ReportExecuteReturns ==
    /\ pc = "report_executor"
    /\ ~ExecutorRefuses(safety, ui.backend)
    /\ \E shape \in DbShapes :
         query_result' = <<MakeQueryResult(shape[1], shape[2], ui)>>
    /\ DbCalled(TRUE)
    /\ traces' = TraceAdd(traces, "db_executor", "-")
    /\ ReportFailure("NameError")
    /\ UNCHANGED <<cfgVars, intent, grounding, sql_plan, safety, pending,
                   response, safety_stale, pureVars>>

\* db_executor.run(ctx) raises inside the report loop
ReportExecuteFail ==
    /\ pc = "report_executor"
    /\ \E e \in {"ToolError", "db_error"} :
         /\ ExecutorRaises(e)
         /\ ReportFailure(e)
    /\ UNCHANGED <<cfgVars, ctxVars, traces, pending, response, safety_stale,
                   pureVars>>

\* error triage of a report query
ReportTriageStepTracing(patches) ==
    /\ pc = "report_triage"
    /\ \/ Raise
       \/ \E ans \in TriageAnswers :
            LET action == TriageAction(ans)
                log == TriageTraceAdd(traces, action, ans, patches)
            IN  /\ traces' = log
                /\ err' = "None"
                /\ IF action = "RETRY_WITH_PATCH"
                   THEN /\ sql_plan' = <<ApplyPatch(sql_plan[1],
                                           ans.patched_sql_server, ans.patched_sql_sqlite)>>
                        /\ safety_stale' = TRUE
                        /\ response' = response
                        /\ executed' = executed
                        /\ pc' = "report_patch_safety"
                   ELSE IF action = "ASK_CLARIFICATION"
                   THEN /\ sql_plan' = sql_plan
                        /\ safety_stale' = safety_stale
                        /\ executed' = executed
                        /\ response' = <<ChatResponse("need_clarification",
                                           ClarificationAnswer(ans, err),
                                           log, Min(ans.questions, QuestionCap), <<>>, FALSE)>>
                        /\ pc' = "done"
                   ELSE /\ sql_plan' = sql_plan
                        /\ safety_stale' = safety_stale
                        /\ executed' = ExecutedError(executed, err)
                        /\ response' = response
                        /\ pc' = "report_next"
                /\ UNCHANGED <<cfgVars, intent, grounding, safety, query_result,
                               attempt, pending, db, pureVars>>

ReportTriageStep == ReportTriageStepTracing(FALSE)

\* the safety check of a patched report query
ReportPatchSafetyCheckStep ==
    /\ pc = "report_patch_safety"
    /\ LET rep == SafetyGuard(sql_plan[1], ui)
       IN  /\ safety' = <<rep>>
           /\ safety_stale' = FALSE
           /\ traces' = TraceAdd(traces, "sql_safety_guard",
                                 IF rep.is_safe THEN "safe" ELSE "unsafe")
           /\ IF ~rep.is_safe
              THEN /\ executed' = ExecutedError(executed, "Patched SQL blocked by policy")
                   /\ pc' = "report_next"
              ELSE /\ executed' = executed
                   /\ pc' = "report_executor"
    /\ UNCHANGED <<cfgVars, intent, grounding, sql_plan, query_result, attempt,
                   err, pending, response, db, pureVars>>

\* the report writer and the ok response of the report branch
ReportWriterStep ==
    /\ pc = "report_next"
    /\ pending = 0
    /\ \/ Raise
       \/ LET log == TraceAdd(traces, "report_writer", "-")
          IN  /\ traces' = log
              /\ response' = <<ChatResponse("ok", <<"report_markdown">>, log, 0,
                                            <<>>, FALSE)>>
              /\ pc' = "done"
              /\ UNCHANGED <<cfgVars, ctxVars, attempt, err, pending, executed,
                             db, safety_stale, pureVars>>

(***************************************************************************)
(* Specifications                                                          *)
(***************************************************************************)
\* the steps of a run through the DATA_QA branch
Next ==
    \/ IntentStep
    \/ GroundingStep
    \/ ClarityStep
    \/ SqlGeneratorStep
    \/ SafetyCheckStep
    \/ ExecuteOk
    \/ ExecuteFail
    \/ TriageStep
    \/ PatchSafetyCheckStep
    \/ InterpretStep

\* DATA_QA runs (a run classified ANALYTICS_REPORT is followed by RunSpec)
Spec == Init /\ [][Next]_vars

\* the steps of a run through either branch
NextRun ==
    \/ Next
    \/ ReportPlannerStep
    \/ ReportQueryStart
    \/ ReportExecuteReturns
    \/ ReportExecuteFail
    \/ ReportTriageStep
    \/ ReportPatchSafetyCheckStep
    \/ ReportWriterStep

RunSpec == InitRun /\ [][NextRun]_vars

\* run() is sequential code: a step that can be taken is taken
FairRunSpec == RunSpec /\ WF_vars(NextRun)

\* a report of several queries: the planner's answer has up to
\* MaxReportQueries queries
LongReportPlannerStep == ReportPlannerStepUpTo(MaxReportQueries)

\* a request handed over by Orchestrator.run whose report plan may have
\* several queries, under the largest retry cap of RunSpec
InitReport == InitWith({MaxRunRetry}, RunUISettingsSet, {<<>>})

NextReport ==
    \/ IntentStep
    \/ GroundingStep
    \/ ClarityStep
    \/ SqlGeneratorStep
    \/ SafetyCheckStep
    \/ ExecuteOk
    \/ ExecuteFail
    \/ TriageStep
    \/ PatchSafetyCheckStep
    \/ InterpretStep
    \/ LongReportPlannerStep
    \/ ReportQueryStart
    \/ ReportExecuteReturns
    \/ ReportExecuteFail
    \/ ReportTriageStep
    \/ ReportPatchSafetyCheckStep
    \/ ReportWriterStep

ReportSpec == InitReport /\ [][NextReport]_vars

\* a report whose plan may hold one query more than the code takes from it,
\* under the retry caps 0 and 1: the first failed attempt of a query reaches
\* the cap, so error triage and patches are never reached in these runs
OverCapPlannerStep == ReportPlannerStepUpTo(ReportQueryCap + 1)

InitOverCap == InitWith({0, 1}, RunUISettingsSet, {<<>>})

NextOverCap ==
    \/ IntentStep
    \/ GroundingStep
    \/ ClarityStep
    \/ SqlGeneratorStep
    \/ SafetyCheckStep
    \/ ExecuteOk
    \/ ExecuteFail
    \/ InterpretStep
    \/ OverCapPlannerStep
    \/ ReportQueryStart
    \/ ReportExecuteReturns
    \/ ReportExecuteFail
    \/ ReportWriterStep

OverCapSpec == InitOverCap /\ [][NextOverCap]_vars

\* runs of either branch in which the patch texts of a triage answer can be
\* read from the trace
PatchTriageStep == TriageStepTracing(TRUE)

PatchReportTriageStep == ReportTriageStepTracing(TRUE)

\* a report of at most one sub-query: a patch stays within its sub-query
SingleQueryPlannerStep == ReportPlannerStepUpTo(1)

NextPatch ==
    \/ IntentStep
    \/ GroundingStep
    \/ ClarityStep
    \/ SqlGeneratorStep
    \/ SafetyCheckStep
    \/ ExecuteOk
    \/ ExecuteFail
    \/ PatchTriageStep
    \/ PatchSafetyCheckStep
    \/ InterpretStep
    \/ SingleQueryPlannerStep
    \/ ReportQueryStart
    \/ ReportExecuteReturns
    \/ ReportExecuteFail
    \/ PatchReportTriageStep
    \/ ReportPatchSafetyCheckStep
    \/ ReportWriterStep

PatchSpec == InitReport /\ [][NextPatch]_vars

\* the clarity check with the agent's answer kept in the trace payload
VerdictClarityStep == ClarityStepTracing(TRUE)

NextClarity ==
    \/ IntentStep
    \/ GroundingStep
    \/ VerdictClarityStep
    \/ SqlGeneratorStep
    \/ SafetyCheckStep
    \/ ExecuteOk
    \/ ExecuteFail
    \/ TriageStep
    \/ PatchSafetyCheckStep
    \/ InterpretStep
    \/ ReportPlannerStep
    \/ ReportQueryStart
    \/ ReportExecuteReturns
    \/ ReportExecuteFail
    \/ ReportTriageStep
    \/ ReportPatchSafetyCheckStep
    \/ ReportWriterStep

\* runs of either branch in which the clarity agent's answer can be read
\* from the trace
ClaritySpec == InitReport /\ [][NextClarity]_vars

(***************************************************************************)
(* Calls of the policy functions on bounded inputs                         *)
(***************************************************************************)
\* lexical pieces the input texts of validate are concatenated from
Pieces == {<<"S","e","l","e","c","t">>, <<"w","i","t","h">>,
           <<"D","E","L","E","T","E">>, <<"e","x","e","c">>, <<"x","p","_">>,
           <<"a">>, <<"_">>, <<" ">>, <<";">>, <<"-","-">>, <<"/","*">>}

RECURSIVE Concat(_)
\* the text made of a sequence of pieces
Concat(ps) == IF ps = <<>> THEN <<>> ELSE Head(ps) \o Concat(Tail(ps))

\* the input texts: every concatenation of at most MaxPieces pieces
Texts == {Concat(ps) : ps \in UNION {[1..n -> Pieces] : n \in 0..MaxPieces}}

\* the calls validate(sql)
ValidateCalls == {[NoCall EXCEPT !.fn = "validate", !.sql = sql] : sql \in Texts}

\* the calls truncate_result(columns, rows, max_cols, max_rows) on rectangular
\* tables, with caps that are counts (not negative)
TruncateCalls ==
    {[NoCall EXCEPT !.fn = "truncate_result",
                    !.columns = DbColumns(nc), !.rows = DbRows(nc, nr),
                    !.max_cols = mc, !.max_rows = mr] :
        nc \in 0..MaxTableDim, nr \in 0..MaxTableDim,
        mc \in 0..MaxCap, mr \in 0..MaxCap}

\* lexical pieces the input texts of apply_row_limit are concatenated from
RowLimitPieces == {<<"S","e","l","e","c","t"," ">>, <<"w","i","t","h"," ">>,
                   <<"t","o","p"," ","1">>, <<"T","o","p"," ","("," ","2",")">>,
                   <<"l","i","m","i","t"," ","1">>,
                   <<"a">>, <<"1">>, <<" ">>, <<";">>}

RowLimitTexts ==
    {Concat(ps) : ps \in UNION {[1..n -> RowLimitPieces] : n \in 0..MaxPieces}}

\* the row caps of the calls: one and two digits
RowLimitCaps == {1, 10}

\* the calls apply_row_limit(sql, backend, max_rows)
RowLimitCalls ==
    {[NoCall EXCEPT !.fn = "apply_row_limit", !.sql = sql, !.backend = b,
                    !.max_rows = n] :
        sql \in RowLimitTexts, b \in {"sqlserver", "sqlite"}, n \in RowLimitCaps}

\* a policy function about to be called; no request is being processed
InitPolicy ==
    /\ pc = "idle"
    /\ max_retry_attempts = 0
    /\ ui \in {[debug |-> FALSE, max_rows_ui |-> 1, max_cols_ui |-> 1, backend |-> "sqlite"]}
    /\ intent = "None"
    /\ grounding = "None"
    /\ sql_plan = <<>>
    /\ safety = <<>>
    /\ query_result = <<>>
    /\ attempt = 0
    /\ err = "None"
    /\ traces = <<>>
    /\ pending = 0
    /\ executed = <<>>
    /\ response = <<>>
    /\ db = NoDbCalls
    /\ safety_stale = FALSE
    /\ call \in ValidateCalls \cup TruncateCalls \cup RowLimitCalls
    /\ ret = NoRet
    /\ viz = NoViz
    /\ orch = NoOrch
    /\ chat = NoChat

runVars == <<pc, max_retry_attempts, ui, intent, grounding, sql_plan, safety,
             query_result, attempt, err, traces, pending, executed, response,
             db, safety_stale, orch>>

\* SqlPolicy().validate(sql)
CallValidate ==
    /\ call.fn = "validate"
    /\ ~ret.done
    /\ ret' = [NoRet EXCEPT !.done = TRUE, !.violations = Validate(call.sql)]
    /\ UNCHANGED <<call, viz, runVars, chat>>

\* LimitsPolicy().truncate_result(columns, rows, max_cols, max_rows)
CallTruncateResult ==
    /\ call.fn = "truncate_result"
    /\ ~ret.done
    /\ LET out == truncate_result(call.columns, call.rows, call.max_cols, call.max_rows)
       IN  ret' = [NoRet EXCEPT !.done = TRUE, !.columns = out.columns,
                                !.rows = out.rows, !.truncated = out.truncated]
    /\ UNCHANGED <<call, viz, runVars, chat>>

\* LimitsPolicy().apply_row_limit(sql, backend, max_rows)
CallApplyRowLimit ==
    /\ call.fn = "apply_row_limit"
    /\ ~ret.done
    /\ ret' = [NoRet EXCEPT !.done = TRUE, !.applied = 1,
                            !.text = apply_row_limit(call.sql, call.backend, call.max_rows)]
    /\ UNCHANGED <<call, viz, runVars, chat>>

\* apply_row_limit called on its own output, same backend and max_rows
CallApplyRowLimitAgain ==
    /\ call.fn = "apply_row_limit"
    /\ ret.done
    /\ ret.applied = 1
    /\ ret' = [ret EXCEPT !.applied = 2,
                          !.again = apply_row_limit(ret.text, call.backend, call.max_rows)]
    /\ UNCHANGED <<call, viz, runVars, chat>>

NextPolicy ==
    \/ CallValidate
    \/ CallTruncateResult
    \/ CallApplyRowLimit
    \/ CallApplyRowLimitAgain

PolicySpec == InitPolicy /\ [][NextPolicy]_vars

(***************************************************************************)
(* run_viz_code and its worker process (app/viz/code_sandbox.py)           *)
(***************************************************************************)
\* timeout_seconds as Orchestrator.run passes it
VizTimeout == 5

\* the generated code, by what _validate_ast finds in it and by what it does
\* when executed: static is the first finding of the AST walk, run the way its
\* execution ends, fig whether it binds fig, sigterm whether it makes the
\* worker ignore SIGTERM (through attributes of the provided modules)
VizCodes ==
    [static : {"clean", "syntax_error", "import", "import_from",
               "blocked_call", "blocked_name"},
     run : {"finishes", "raises", "loops"},
     fig : {"assigned", "unassigned"},
     sigterm : {"default", "ignored"}]

\* _validate_ast with only the Import node rejected
ValidateAstImportOnly(code) ==
    CASE code.static = "syntax_error" -> <<"invalid syntax">>
      [] code.static = "import" -> <<"Imports are not allowed in visualization code.">>
      [] OTHER -> NoneStr

\* _validate_ast(code): the text of the exception it raises, None if it returns
ValidateAst(code) ==
    CASE code.static = "syntax_error" -> <<"invalid syntax">>
      [] code.static \in {"import", "import_from"} ->
            <<"Imports are not allowed in visualization code.">>
      [] code.static = "blocked_call" -> <<"Call to blocked function">>
      [] code.static = "blocked_name" -> <<"Use of blocked name">>
      [] OTHER -> NoneStr

\* fig taken from the code's bindings only
PickFigNoFallback(code) ==
    IF code.fig = "assigned" THEN <<"fig">> ELSE NoneStr

\* fig = l.get("fig") or g.get("fig"); if fig is None: fig = plt.gcf()
PickFig(code) ==
    IF code.fig = "assigned" THEN <<"fig">> ELSE <<"plt.gcf()">>

\* the dict the worker puts on the queue
WorkerOut(ok, error, fig) == [ok |-> ok, error |-> error, fig |-> fig]

\* SandboxResult(ok, error, fig)
SandboxResult(ok, error, fig) == [ok |-> ok, error |-> error, fig |-> fig]

\* p.is_alive()
WorkerAlive == viz.worker \in {"started", "executing", "done"}

\* SIGTERM does not end the worker: the executed code made it ignore the signal
SigtermIgnored == viz.code.sigterm = "ignored" /\ viz.executed > 0

\* a call run_viz_code(code, df, timeout_seconds) about to start
InitSandbox ==
    /\ pc = "idle"
    /\ max_retry_attempts = 0
    /\ ui \in {[debug |-> FALSE, max_rows_ui |-> 1, max_cols_ui |-> 1, backend |-> "sqlite"]}
    /\ intent = "None"
    /\ grounding = "None"
    /\ sql_plan = <<>>
    /\ safety = <<>>
    /\ query_result = <<>>
    /\ attempt = 0
    /\ err = "None"
    /\ traces = <<>>
    /\ pending = 0
    /\ executed = <<>>
    /\ response = <<>>
    /\ db = NoDbCalls
    /\ safety_stale = FALSE
    /\ call = NoCall
    /\ ret = NoRet
    /\ viz \in {[NoViz EXCEPT !.pc = "start", !.code = c] : c \in VizCodes}
    /\ orch = NoOrch
    /\ chat = NoChat

\* q = mp.Queue(); p = mp.Process(target=_worker, ...); p.start()
SandboxStart ==
    /\ viz.pc = "start"
    /\ viz' = [viz EXCEPT !.pc = "join", !.worker = "started"]
    /\ UNCHANGED <<runVars, call, ret, chat>>

\* _worker: _validate_ast(code); a raise is caught and put on the queue
WorkerValidate ==
    /\ viz.worker = "started"
    /\ LET e == ValidateAst(viz.code)
       IN  viz' = IF e # NoneStr
                  THEN [viz EXCEPT !.worker = "done",
                                   !.queue = Append(@, WorkerOut(FALSE, e, NoneStr))]
                  ELSE [viz EXCEPT !.worker = "executing"]
    /\ UNCHANGED <<runVars, call, ret, chat>>

\* _worker: exec(code, g, l), then the result or the exception is put on the
\* queue; code that loops stays in exec
WorkerExec ==
    /\ viz.worker = "executing"
    /\ viz.executed = 0
    /\ viz' = CASE viz.code.run = "finishes" ->
                     [viz EXCEPT !.executed = 1, !.worker = "done",
                                 !.queue = Append(@, WorkerOut(TRUE, NoneStr, PickFig(viz.code)))]
                [] viz.code.run = "raises" ->
                     [viz EXCEPT !.executed = 1, !.worker = "done",
                                 !.queue = Append(@, WorkerOut(FALSE, <<"str(e)">>, NoneStr))]
                [] OTHER -> [viz EXCEPT !.executed = 1]
    /\ UNCHANGED <<runVars, call, ret, chat>>

\* the worker process ends after _worker returned
WorkerExit ==
    /\ viz.worker = "done"
    /\ viz' = [viz EXCEPT !.worker = "exited"]
    /\ UNCHANGED <<runVars, call, ret, chat>>

\* SIGTERM ends the worker process, unless it ignores the signal
WorkerKilled ==
    /\ viz.term_sent
    /\ WorkerAlive
    /\ ~SigtermIgnored
    /\ viz' = [viz EXCEPT !.worker = "killed"]
    /\ UNCHANGED <<runVars, call, ret, chat>>

\* p.join(timeout_seconds) returns: the worker ended, or the timeout elapsed;
\* at_join keeps how far the worker had come at that moment
SandboxJoinReturns ==
    /\ viz.pc = "join"
    /\ viz' = [viz EXCEPT !.pc = "is_alive", !.at_join = viz.worker]
    /\ UNCHANGED <<runVars, call, ret, chat>>

\* if p.is_alive(): p.terminate()
SandboxIsAlive ==
    /\ viz.pc = "is_alive"
    /\ viz' = IF WorkerAlive
              THEN [viz EXCEPT !.pc = "join1", !.found_running = TRUE, !.term_sent = TRUE]
              ELSE [viz EXCEPT !.pc = "queue"]
    /\ UNCHANGED <<runVars, call, ret, chat>>

\* p.join(1) returns (the worker ended, or one second elapsed with the worker
\* ignoring SIGTERM), then the timeout failure is returned
SandboxTimedOut ==
    /\ viz.pc = "join1"
    /\ ~WorkerAlive \/ SigtermIgnored
    /\ viz' = [viz EXCEPT !.pc = "returned",
                          !.results = Append(@, SandboxResult(FALSE,
                              <<"Visualization code timed out after ",
                                IntToStr(VizTimeout), "s">>, NoneStr))]
    /\ UNCHANGED <<runVars, call, ret, chat>>

\* if q.empty(): failure; else out = q.get() and its three entries are returned
SandboxReadQueue ==
    /\ viz.pc = "queue"
    /\ viz' = IF viz.queue = <<>>
              THEN [viz EXCEPT !.pc = "returned",
                               !.results = Append(@, SandboxResult(FALSE,
                                   <<"No result returned from sandbox">>, NoneStr))]
              ELSE [viz EXCEPT !.pc = "returned",
                               !.queue = Tail(@),
                               !.results = Append(@, SandboxResult(Head(viz.queue).ok,
                                   Head(viz.queue).error, Head(viz.queue).fig))]
    /\ UNCHANGED <<runVars, call, ret, chat>>

NextSandbox ==
    \/ SandboxStart
    \/ WorkerValidate
    \/ WorkerExec
    \/ WorkerExit
    \/ WorkerKilled
    \/ SandboxJoinReturns
    \/ SandboxIsAlive
    \/ SandboxTimedOut
    \/ SandboxReadQueue

SandboxSpec == InitSandbox /\ [][NextSandbox]_vars

(***************************************************************************)
(* handle_chat: chat turns processed at the same time                      *)
(***************************************************************************)
\* the requests followed: a greeting, a question no dataset matches, and a
\* confirmed request the clarity check finds unclear
ChatKinds == {"greeting", "no_data", "fallback_unclear"}

\* a turn that has not entered handle_chat yet
NewTurn(kind, debug, label) ==
    [pc |-> "new", kind |-> kind, debug |-> debug, intent |-> label,
     tracer |-> 0, ctx |-> 0, response |-> <<>>]

\* a build_orchestrator that hands every orchestrator the same collector
AllocTracerShared(tracers) == 1

\* tracer = TraceCollector() in build_orchestrator: a new object on the heap
AllocTracer(tracers) == Len(tracers) + 1

\* self.tracer.add(step, payload) by turn t; by is the turn that made the call
ChatTraceAdd(t, step) ==
    [chat.tracers EXCEPT ![chat.turn[t].tracer] =
        Append(@, [step |-> step, by |-> t])]

\* the response of turn t: traces are the collector's entries when debug
ChatTurnResponse(t, status, log, traced) ==
    [status |-> status,
     traces |-> IF traced /\ chat.turn[t].debug
                THEN [present |-> TRUE, entries |-> log]
                ELSE [present |-> FALSE, entries |-> <<>>]]

\* two or more turns about to call handle_chat
InitChat ==
    /\ pc = "idle"
    /\ max_retry_attempts = 0
    /\ ui \in {[debug |-> FALSE, max_rows_ui |-> 1, max_cols_ui |-> 1, backend |-> "sqlite"]}
    /\ intent = "None"
    /\ grounding = "None"
    /\ sql_plan = <<>>
    /\ safety = <<>>
    /\ query_result = <<>>
    /\ attempt = 0
    /\ err = "None"
    /\ traces = <<>>
    /\ pending = 0
    /\ executed = <<>>
    /\ response = <<>>
    /\ db = NoDbCalls
    /\ safety_stale = FALSE
    /\ call = NoCall
    /\ ret = NoRet
    /\ viz = NoViz
    /\ orch = NoOrch
    /\ \E turns \in [1..MaxTurns ->
                      {NewTurn(k, d, i) : k \in ChatKinds, d \in BOOLEAN,
                                          i \in {"DATA_QA", "ANALYTICS_REPORT"}}] :
         chat = [turn |-> turns, tracers |-> <<>>, contexts |-> <<>>]

chatRest == <<runVars, call, ret, viz>>

\* orch = build_orchestrator(): the turn's own collector and orchestrators
ChatBuild(t) ==
    /\ chat.turn[t].pc = "new"
    /\ LET id == AllocTracer(chat.tracers)
       IN  chat' = [chat EXCEPT !.turn[t].pc = "meta",
                                !.turn[t].tracer = id,
                                !.tracers = IF id > Len(@) THEN Append(@, <<>>) ELSE @]
    /\ UNCHANGED chatRest

\* Orchestrator.run: the meta trace, then the greeting return or the routing
ChatMeta(t) ==
    /\ chat.turn[t].pc = "meta"
    /\ LET log == ChatTraceAdd(t, "meta")
       IN  IF chat.turn[t].kind = "greeting"
           THEN chat' = [chat EXCEPT !.tracers = log,
                                     !.turn[t].pc = "returned",
                                     !.turn[t].response =
                                        <<ChatTurnResponse(t, "ok", <<>>, FALSE)>>]
           ELSE chat' = [chat EXCEPT !.tracers = log,
                                     !.turn[t].pc =
                                        IF chat.turn[t].kind = "fallback_unclear"
                                        THEN "routing" ELSE "answer"]
    /\ UNCHANGED chatRest

\* the available-data answer is not ok: the need_confirmation response
ChatAnswer(t) ==
    /\ chat.turn[t].pc = "answer"
    /\ LET log == ChatTraceAdd(t, "available_data.free")
       IN  chat' = [chat EXCEPT !.tracers = log,
                                !.turn[t].pc = "returned",
                                !.turn[t].response =
                                   <<ChatTurnResponse(t, "need_confirmation",
                                        log[chat.turn[t].tracer], TRUE)>>]
    /\ UNCHANGED chatRest

\* the routing trace and the first line of FallbackOrchestrator.run:
\* ctx = ChatContext(request=req), a new object on the heap
ChatRouting(t) ==
    /\ chat.turn[t].pc = "routing"
    /\ chat' = [chat EXCEPT !.tracers = ChatTraceAdd(t, "routing"),
                            !.contexts = Append(@, [intent |-> "None", by |-> t]),
                            !.turn[t].ctx = Len(chat.contexts) + 1,
                            !.turn[t].pc = "intent_router"]
    /\ UNCHANGED chatRest

\* the intent step: the trace and ctx.intent = intent
ChatIntent(t) ==
    /\ chat.turn[t].pc = "intent_router"
    /\ chat' = [chat EXCEPT !.tracers = ChatTraceAdd(t, "intent_router"),
                            !.contexts[chat.turn[t].ctx].intent = chat.turn[t].intent,
                            !.turn[t].pc = "metadata_retriever"]
    /\ UNCHANGED chatRest

\* the grounding step
ChatGrounding(t) ==
    /\ chat.turn[t].pc = "metadata_retriever"
    /\ chat' = [chat EXCEPT !.tracers = ChatTraceAdd(t, "metadata_retriever"),
                            !.turn[t].pc = "requirement_clarity"]
    /\ UNCHANGED chatRest

\* the clarity step finds the request unclear: the need_clarification response
ChatClarity(t) ==
    /\ chat.turn[t].pc = "requirement_clarity"
    /\ LET log == ChatTraceAdd(t, "requirement_clarity")
       IN  chat' = [chat EXCEPT !.tracers = log,
                                !.turn[t].pc = "returned",
                                !.turn[t].response =
                                   <<ChatTurnResponse(t, "need_clarification",
                                        log[chat.turn[t].tracer], TRUE)>>]
    /\ UNCHANGED chatRest

NextChat ==
    \/ \E t \in 1..MaxTurns : ChatBuild(t)
    \/ \E t \in 1..MaxTurns : ChatMeta(t)
    \/ \E t \in 1..MaxTurns : ChatAnswer(t)
    \/ \E t \in 1..MaxTurns : ChatRouting(t)
    \/ \E t \in 1..MaxTurns : ChatIntent(t)
    \/ \E t \in 1..MaxTurns : ChatGrounding(t)
    \/ \E t \in 1..MaxTurns : ChatClarity(t)

ChatSpec == InitChat /\ [][NextChat]_vars

(***************************************************************************)
(* Orchestrator.run: the available-data lane and the hand-over to the      *)
(* fallback lane                                                           *)
(***************************************************************************)
\* how the registry and the store stand for an intent key
IntentKinds ==
    {"good", "not_in_registry", "no_dataset", "dataset_unavailable", "missing_columns"}

\* req.meta as far as the confirmation flag goes: no meta at all, a meta
\* without the key, the key set to False, the key set to True
MetaFlags == {"no_meta", "no_key", "False", "True"}

\* a confirmation check that takes a request without the key as confirmed
ConfirmSearchElsewhereByDefault(m) == m \in {"no_key", "True"}

\* _confirm_search_elsewhere(req): bool((req.meta or {}).get(key, False))
ConfirmSearchElsewhere(m) == m = "True"

\* an engine that does not compare the dataset with spec["required_columns"]
answer_from_intent_any_columns(k) ==
    IF k = "not_in_registry"
    THEN [ok |-> FALSE, reason |-> "Intent not found in registry", df |-> FALSE]
    ELSE IF k = "no_dataset"
    THEN [ok |-> FALSE, reason |-> "Intent has no dataset mapping", df |-> FALSE]
    ELSE IF k = "dataset_unavailable"
    THEN [ok |-> FALSE, reason |-> "Dataset not available", df |-> FALSE]
    ELSE [ok |-> TRUE, reason |-> "ok", df |-> TRUE]

\* AvailableDataEngine.answer_from_intent(intent_key, question)
answer_from_intent(k) ==
    IF k = "not_in_registry"
    THEN [ok |-> FALSE, reason |-> "Intent not found in registry", df |-> FALSE]
    ELSE IF k = "no_dataset"
    THEN [ok |-> FALSE, reason |-> "Intent has no dataset mapping", df |-> FALSE]
    ELSE IF k = "dataset_unavailable"
    THEN [ok |-> FALSE, reason |-> "Dataset not available", df |-> FALSE]
    ELSE IF k = "missing_columns"
    THEN [ok |-> FALSE, reason |-> "Missing required columns", df |-> FALSE]
    ELSE [ok |-> TRUE, reason |-> "ok", df |-> TRUE]

\* AvailableDataEngine.answer_from_free_question(question); match is what
\* find_dataset_and_metrics(store, question) found
answer_from_free_question(match) ==
    IF ~match
    THEN [ok |-> FALSE, reason |-> "No suitable dataset/metric found", df |-> FALSE]
    ELSE [ok |-> TRUE, reason |-> "match", df |-> TRUE]

\* a ChatResponse built without traces and returned as built
PlainResponse(status, answer) ==
    [ChatResponse(status, answer, <<>>, 0, <<>>, FALSE)
        EXCEPT !.traces = [present |-> FALSE, entries |-> <<>>]]

\* Orchestrator._ask_search_elsewhere()
AskSearchElsewhere(log) ==
    ChatResponse("need_confirmation",
                 <<"I can't find that data in what's currently available. Do you want me to search elsewhere?">>,
                 log, 0, <<>>, FALSE)

orchRest == <<cfgVars, ctxVars, attempt, err, pending, executed, db,
              safety_stale, call, ret, viz, chat>>

\* a request arriving at Orchestrator.run (through handle_chat)
InitOrchWith(retries, settings) ==
    /\ pc = "orch_meta"
    /\ max_retry_attempts \in retries
    /\ ui \in settings
    /\ intent = "None"
    /\ grounding = "None"
    /\ sql_plan = <<>>
    /\ safety = <<>>
    /\ query_result = <<>>
    /\ attempt = 0
    /\ err = "None"
    /\ traces = <<>>
    /\ pending = 0
    /\ executed = <<>>
    /\ response = <<>>
    /\ db = NoDbCalls
    /\ safety_stale = FALSE
    /\ call = NoCall
    /\ ret = NoRet
    /\ viz = NoViz
    /\ orch \in {[NoOrch EXCEPT !.greeting = g, !.confirm = m, !.requests = 1] :
                    g \in BOOLEAN, m \in MetaFlags}
    /\ chat = NoChat

InitOrch == InitOrchWith(0..MaxRunRetry, RunUISettingsSet)

\* the "meta" trace, the greeting branch and the routing on the confirmation
\* flag: return self.fallback.run(req)
OrchMetaStep ==
    /\ pc = "orch_meta"
    /\ LET log == TraceAdd(traces, "meta", "-")
       IN  IF orch.greeting
           THEN /\ traces' = log
                /\ response' = <<PlainResponse("ok", <<"Hello. Select a role to see recommended questions">>)>>
                /\ pc' = "done"
                /\ orch' = orch
           ELSE IF ConfirmSearchElsewhere(orch.confirm)
           THEN /\ traces' = TraceAdd(log, "routing", "fallback")
                /\ response' = response
                /\ pc' = "intent_router"
                /\ orch' = [orch EXCEPT !.fallback_runs = @ + 1]
           ELSE /\ traces' = log
                /\ response' = response
                /\ pc' = "orch_intent"
                /\ orch' = orch
    /\ UNCHANGED orchRest

\* intent_key = _selected_intent(req), else the branch rule, else the fuzzy
\* match on the built-in questions, else the registry_router agent, whose
\* pick is taken only when it is a key of the registry
OrchIntentStep ==
    /\ pc = "orch_intent"
    /\ \/ \E sel \in IntentKinds :
            /\ orch' = [orch EXCEPT !.selected_intent = sel, !.intent_key = sel]
            /\ traces' = traces
            /\ pc' = "orch_answer"
            /\ UNCHANGED <<response, orchRest>>
       \/ \E k \in IntentKinds \ {"not_in_registry"} :
            /\ orch' = [orch EXCEPT !.intent_key = k]
            /\ traces' = TraceAdd(traces, "intent_match", "rule_branch")
            /\ pc' = "orch_answer"
            /\ UNCHANGED <<response, orchRest>>
       \/ \E k \in IntentKinds :
            /\ orch' = [orch EXCEPT !.intent_key = k]
            /\ traces' = TraceAdd(traces, "intent_match", "fuzzy_builtin")
            /\ pc' = "orch_answer"
            /\ UNCHANGED <<response, orchRest>>
       \/ \E picked \in IntentKinds \cup {"NONE"} :
            /\ orch' = [orch EXCEPT !.intent_key =
                           IF picked # "NONE" /\ picked # "not_in_registry"
                           THEN picked ELSE "None"]
            /\ traces' = TraceAdd(traces, "registry_router", picked)
            /\ pc' = "orch_answer"
            /\ UNCHANGED <<response, orchRest>>
       \/ Raise

\* the available-data answer; not ans.ok or ans.df is None ends the run with
\* the question whether to search elsewhere
OrchAnswerStep ==
    /\ pc = "orch_answer"
    /\ \E match \in BOOLEAN :
        LET ans == IF orch.intent_key # "None"
                   THEN answer_from_intent(orch.intent_key)
                   ELSE answer_from_free_question(match)
            log == TraceAdd(traces,
                            IF orch.intent_key # "None"
                            THEN "available_data.intent" ELSE "available_data.free",
                            ans.reason)
        IN  /\ orch' = [orch EXCEPT !.ans = <<ans>>]
            /\ traces' = log
            /\ IF ~ans.ok \/ ~ans.df
               THEN /\ response' = <<AskSearchElsewhere(log)>>
                    /\ pc' = "done"
               ELSE /\ response' = response
                    /\ pc' = "orch_filter"
    /\ UNCHANGED orchRest

\* the branch filter: a token that matches no row ends the run with an
\* answer built without traces
OrchFilterStep ==
    /\ pc = "orch_filter"
    /\ \/ /\ traces' = traces
          /\ response' = response
          /\ pc' = "orch_viz_coder"
       \/ \E empty \in BOOLEAN :
            /\ traces' = TraceAdd(traces, "branch_filter", "-")
            /\ IF empty
               THEN /\ response' = <<PlainResponse("ok", <<"No data available for ", "token", " branch in currently available datasets.">>)>>
                    /\ pc' = "done"
               ELSE /\ response' = response
                    /\ pc' = "orch_viz_coder"
    /\ UNCHANGED <<orch, orchRest>>

\* periods=2 of the call of _forecast_next_months
ForecastPeriods == 2

\* the dataset of an answer: nc columns and nr rows
DataTable(nc, nr) == [columns |-> DbColumns(nc), rows |-> DbRows(nc, nr)]

\* _forecast_next_months when it forecasts: ForecastPeriods rows for each of
\* the groups are appended and the column __is_forecast is added
ForecastTable(nc, nr, groups) == DataTable(nc + 1, nr + ForecastPeriods * groups)

\* DataFrame.tail(n)
PyTail(rows, n) ==
    IF n = 0 THEN <<>>
    ELSE IF n > 0 THEN SubSeq(rows, Max(1, Len(rows) - n + 1), Len(rows))
    ELSE SubSeq(rows, Min(Len(rows), 0 - n) + 1, Len(rows))

\* _cap_df with the rows cut and every column kept
_cap_df_rows_only(t, max_rows, max_cols, time_col, preserve_recent) ==
    [columns |-> t.columns,
     rows |-> IF preserve_recent /\ time_col # 0
              THEN PyTail(t.rows, max_rows) ELSE PySliceTo(t.rows, max_rows)]

\* _cap_df: the first max_cols columns, then the last max_rows rows when the
\* recent rows are to be kept and the time column is among them, the first
\* max_rows rows otherwise. time_col is the column's number, 0 for None.
_cap_df(t, max_rows, max_cols, time_col, preserve_recent) ==
    LET cols == PySliceTo(t.columns, max_cols)
        d == [i \in 1..Len(t.rows) |-> PySliceTo(t.rows[i], max_cols)]
        time_in_d == time_col # 0 /\ \E k \in 1..Len(cols) : cols[k] = time_col
    IN  [columns |-> cols,
         rows |-> IF preserve_recent /\ time_in_d
                  THEN PyTail(d, max_rows) ELSE PySliceTo(d, max_rows)]

\* the forecast, the cap of the table, and the viz_coder agent, which is
\* skipped for a trend request. The dataset of the answer is drawn here,
\* where it is first read: its shape, the number of its time column (0 for
\* None) and the number of groups a forecast is made for.
OrchVizCoderStepOver(shapes, time_cols, group_counts) ==
    /\ pc = "orch_viz_coder"
    /\ \/ \E shape \in shapes, time_col \in time_cols,
             forecast \in BOOLEAN, groups \in group_counts,
             how \in {"skipped_for_trend", "viz"} :
            LET nc == shape[1]
                nr == shape[2]
                df_work == IF forecast THEN ForecastTable(nc, nr, groups)
                           ELSE DataTable(nc, nr)
                df == _cap_df(df_work, ui.max_rows_ui, ui.max_cols_ui,
                              time_col, forecast)
            IN  /\ time_col <= nc
                /\ forecast => (nr > 0 /\ time_col # 0)
                /\ ~forecast => \A g \in group_counts : groups <= g
                /\ traces' = TraceAdd(IF forecast THEN TraceAdd(traces, "forecast", "-")
                                      ELSE traces, "viz_coder", how)
                /\ orch' = [orch EXCEPT !.table = <<df>>]
                /\ pc' = "orch_sandbox"
                /\ UNCHANGED <<response, orchRest>>
       \/ Raise

\* a dataset of one row and one column, its time column
OrchVizCoderStep == OrchVizCoderStepOver({<<1, 1>>}, {1}, {1})

\* how the try block of the chart ends: no code to run, the outcomes of
\* run_viz_code, or an exception before or in the call
SandboxOutcomes == {"no_code", "sandbox_ok", "rejected", "raised", "timed_out",
                    "exception"}

\* the outcomes in which run_viz_code returned
SandboxReturned == {"sandbox_ok", "rejected", "raised", "timed_out"}

\* the default renderer used only when there was no code
NeedsDefaultChartNoCodeOnly(out) == out = "no_code"

\* if fig_obj is None: no code was run, or the sandbox result was not ok
NeedsDefaultChart(out) == out \in {"no_code", "rejected", "raised", "timed_out"}

\* try: run_viz_code(code, df_viz, timeout_seconds=5) when there is code, a
\* result that is not ok is traced; render_chart when there is no figure;
\* except Exception: trace viz_error
OrchSandboxStepOver(outcomes, renders) ==
    /\ pc = "orch_sandbox"
    /\ \E out \in outcomes, render \in renders :
        LET failed == out \in SandboxReturned \ {"sandbox_ok"}
            log == IF failed THEN TraceAdd(traces, "viz_sandbox_error", out)
                   ELSE traces
            rendered == NeedsDefaultChart(out)
        IN  /\ ~rendered => \A r \in renders : r = "raises" \/ render = r
            /\ traces' = IF out = "exception" \/ (rendered /\ render = "raises")
                         THEN TraceAdd(log, "viz_error", "-")
                         ELSE log
            /\ orch' = [orch EXCEPT
                          !.sandbox_runs = IF out \in SandboxReturned THEN @ + 1 ELSE @,
                          !.sandbox_out = out,
                          !.render_runs = IF rendered THEN @ + 1 ELSE @,
                          !.fig = IF out = "sandbox_ok" THEN "sandbox"
                                  ELSE IF rendered /\ render = "renders" THEN "default"
                                  ELSE "None"]
    /\ pc' = "orch_writer"
    /\ UNCHANGED <<response, orchRest>>

\* the chart step with a default renderer that returns
OrchSandboxStep ==
    OrchSandboxStepOver({"no_code", "sandbox_ok", "timed_out", "exception"},
                        {"renders"})

\* report_blocks of the ok response: the capped table and the figure
ReportBlocks(df, fig) ==
    [report_blocks |-> <<[columns |-> df.columns, rows |-> df.rows, fig |-> fig]>>]

\* the executive_writer agent and the final response
OrchWriterStep ==
    /\ pc = "orch_writer"
    /\ \/ LET log == TraceAdd(traces, "executive_writer", "-")
          IN  /\ traces' = log
              /\ response' = <<ReportBlocks(orch.table[1], orch.fig)
                                 @@ ChatResponse("ok", <<"markdown">>, log, 0, <<>>, TRUE)>>
              /\ pc' = "done"
              /\ UNCHANGED <<orch, orchRest>>
       \/ Raise

\* Orchestrator.run, with the fallback run it may hand the request to
NextOrch ==
    \/ OrchMetaStep
    \/ OrchIntentStep
    \/ OrchAnswerStep
    \/ OrchFilterStep
    \/ OrchVizCoderStep
    \/ OrchSandboxStep
    \/ OrchWriterStep
    \/ NextRun

OrchSpec == InitOrch /\ [][NextOrch]_vars

\* the requests of OrchSpec with caps of one and two rows and columns, so
\* that a dataset can lie below, at and above each cap
TableUISettingsSet ==
    [debug : BOOLEAN, max_rows_ui : {1, 2}, max_cols_ui : {1, 2},
     backend : {"sqlite"}]

InitTable == InitOrchWith({MaxRunRetry}, TableUISettingsSet)

\* the chart steps over datasets of every shape and every outcome of the
\* sandbox and of the default renderer
TableVizCoderStep == OrchVizCoderStepOver(DbShapes, {0, 1, MaxDbCols}, {1, 2})

TableSandboxStep == OrchSandboxStepOver(SandboxOutcomes, {"renders", "raises"})

\* Orchestrator.run up to its response or its hand-over to the fallback run
NextTable ==
    \/ OrchMetaStep
    \/ OrchIntentStep
    \/ OrchAnswerStep
    \/ OrchFilterStep
    \/ TableVizCoderStep
    \/ TableSandboxStep
    \/ OrchWriterStep

TableSpec == InitTable /\ [][NextTable]_vars

(***************************************************************************)
(* One Orchestrator instance serving several requests                      *)
(***************************************************************************)
\* orch.run(req) is called again on the same instance after the previous
\* call has returned or raised: run() makes a new ChatContext and new
\* locals; the TraceCollector made by build_orchestrator is neither replaced
\* nor emptied. trace_base notes how many entries the tracer holds when the
\* run begins.
NextRequest ==
    /\ pc \in {"done", "raised"}
    /\ orch.requests >= 1
    /\ orch.requests < MaxRequests
    /\ Len(traces) <= MaxSessionLog
    /\ pc' = "orch_meta"
    /\ ui' \in RunUISettingsSet
    /\ \E g \in BOOLEAN, m \in MetaFlags :
         orch' = [NoOrch EXCEPT !.greeting = g, !.confirm = m,
                                !.requests = orch.requests + 1,
                                !.trace_base = Len(traces)]
    /\ intent' = "None"
    /\ grounding' = "None"
    /\ sql_plan' = <<>>
    /\ safety' = <<>>
    /\ query_result' = <<>>
    /\ attempt' = 0
    /\ err' = "None"
    /\ pending' = 0
    /\ executed' = <<>>
    /\ response' = <<>>
    /\ db' = NoDbCalls
    /\ safety_stale' = FALSE
    /\ traces' = traces
    /\ UNCHANGED <<max_retry_attempts, call, ret, viz, chat>>

\* the first request of an instance built with the largest retry cap
InitSession == InitOrch /\ max_retry_attempts = MaxRunRetry

NextSession ==
    \/ NextOrch
    \/ NextRequest

SessionSpec == InitSession /\ [][NextSession]_vars

(***************************************************************************)
(* Vocabulary of the properties                                            *)
(***************************************************************************)
\* number of entries of a trace log with the given step name
CountStep(log, step) == Cardinality({i \in 1..Len(log) : log[i].step = step})

\* the run has left the intent step on the DATA_QA branch
DataQaRun == intent \notin {"None", "ANALYTICS_REPORT"}

\* the run has returned a ChatResponse
Returned == pc = "done" /\ response # <<>>

\* every triage consulted so far answered RETRY_WITH_PATCH and every safety
\* check so far passed
OnlySafeRetries ==
    \A i \in 1..Len(traces) :
        /\ traces[i].step = "error_triage" => traces[i].payload = "RETRY_WITH_PATCH"
        /\ traces[i].step = "sql_safety_guard" => traces[i].payload = "safe"

\* the SQL of the current plan for the request's backend
PlanSqlForBackend ==
    IF ui.backend = "sqlserver" THEN sql_plan[1].sql_server ELSE sql_plan[1].sql_sqlite

\* a step in which the database collaborator is called
DbCallStep == db'.calls = db.calls + 1

(***************************************************************************)
(* C1                                                                      *)
(***************************************************************************)
\* C1 as stated: a DATA_QA run in which every call of the execution
\* collaborator failed has ended with status error after exactly
\* max_retry_attempts calls.
C1_ErrorAfterExactlyMaxCalls ==
    (DataQaRun /\ Returned /\ db.calls >= 1 /\ db.oks = 0)
        => (response[1].status = "error" /\ db.calls = max_retry_attempts)

\* C1 amended: a DATA_QA run in which every call of the execution collaborator
\* failed, every triage consulted answered RETRY_WITH_PATCH and every patched
\* plan passed the safety check has ended with status error after exactly
\* max(1, max_retry_attempts) calls of the execution collaborator.
C1_ErrorAfterMaxCallsWhenAlwaysRetried ==
    (DataQaRun /\ Returned /\ db.calls >= 1 /\ db.oks = 0 /\ OnlySafeRetries)
        => /\ response[1].status = "error"
           /\ response[1].answer[1] = "Query failed after "
           /\ db.calls = Max(1, max_retry_attempts)

C1_Witness ==
    /\ DataQaRun /\ Returned /\ OnlySafeRetries
    /\ max_retry_attempts = 3
    /\ db.calls = 3 /\ db.oks = 0
    /\ CountStep(traces, "error_triage") = 2
    /\ response[1].status = "error"

(***************************************************************************)
(* C2                                                                      *)
(***************************************************************************)
\* the parts of C2 that do not depend on how the cap is counted: in a DATA_QA
\* run the retry counter equals the number of failed execution attempts,
\* triage is consulted and execution repeated only below the cap, and a
\* failure that reaches the cap ends the run with status error
C2_CounterAndCap ==
    DataQaRun =>
        /\ attempt = db.fails
        /\ (pc \in {"error_triage", "patch_safety"} => attempt < max_retry_attempts)
        /\ (pc = "db_executor" /\ attempt > 0 => attempt < max_retry_attempts)
        /\ (db.fails >= 1 /\ attempt >= max_retry_attempts
              => Returned /\ response[1].status = "error"
                 /\ CountStep(traces, "error_triage") = attempt - 1)

\* C2 as stated: the above, and the number of execution attempts never
\* exceeds max_retry_attempts.
C2_AttemptsNeverExceedMax ==
    /\ C2_CounterAndCap
    /\ (DataQaRun => db.calls <= max_retry_attempts)

\* what the code does instead: the first attempt is made whatever the cap, so
\* the number of execution attempts never exceeds max(1, max_retry_attempts)
C2_AttemptsNeverExceedMaxOrOne ==
    /\ C2_CounterAndCap
    /\ (DataQaRun => db.calls <= Max(1, max_retry_attempts))

\* the run that refutes C2 as stated: a cap of 0 and one execution attempt
C2_OneAttemptUnderCapZero ==
    /\ DataQaRun /\ Returned
    /\ max_retry_attempts = 0
    /\ db.calls = 1 /\ db.fails = 1 /\ attempt = 1
    /\ response[1].status = "error"

(***************************************************************************)
(* C3                                                                      *)
(***************************************************************************)
\* C3: in a DATA_QA run a RETRY_WITH_PATCH leads to the safety check of the
\* patched plan and to nothing else; that check validates the backend-selected
\* SQL of the patched plan; a violation ends the run with status blocked and
\* no call of the execution collaborator, and the collaborator is called only
\* under a report that is not older than the plan.
C3_PatchRecheckedBeforeExecution ==
    [][ /\ (pc = "error_triage" /\ traces' # traces
                /\ traces'[Len(traces')].payload = "RETRY_WITH_PATCH")
            => (pc' = "patch_safety" /\ db' = db)
        /\ pc = "patch_safety"
            => /\ traces' = Append(traces, traces'[Len(traces')])
               /\ traces'[Len(traces')].step = "sql_safety_guard"
               /\ safety' # <<>>
               /\ safety'[1].is_safe = (Validate(PlanSqlForBackend) = <<>>)
               /\ sql_plan' = sql_plan
               /\ db' = db
               /\ IF Validate(PlanSqlForBackend) # <<>>
                  THEN pc' = "done" /\ response' # <<>> /\ response'[1].status = "blocked"
                  ELSE pc' = "db_executor"
        /\ (DataQaRun /\ DbCallStep) => (~safety_stale /\ pc = "db_executor")
        /\ pc # "done"
      ]_vars

C3_Witness ==
    /\ DataQaRun /\ Returned
    /\ response[1].status = "blocked"
    /\ response[1].answer = <<"Patched SQL blocked by policy.">>
    /\ CountStep(traces, "error_triage") = 2
    /\ db.calls = 2

(***************************************************************************)
(* C4                                                                      *)
(***************************************************************************)
\* C4: whenever the execution collaborator is called (either branch, first
\* attempt or retry) the SQL it receives is apply_row_limit of the
\* backend-selected SQL of the current plan, that SQL has no violation, and
\* the safety report in force is safe and was computed after the plan's last
\* assignment.
C4_ExecutesOnlyFreshSafeSql ==
    [][ DbCallStep =>
          /\ sql_plan # <<>>
          /\ safety # <<>>
          /\ safety[1].is_safe
          /\ ~safety_stale
          /\ Validate(PlanSqlForBackend) = <<>>
          /\ db'.last_sql = apply_row_limit(PlanSqlForBackend, ui.backend, ui.max_rows_ui)
      ]_vars

C4_Witness ==
    /\ intent = "ANALYTICS_REPORT"
    /\ db.calls = 2
    /\ CountStep(traces, "error_triage") = 1
    /\ sql_plan # <<>>
    /\ sql_plan[1].sql_server # sql_plan[1].sql_sqlite
    /\ PlanSqlForBackend = SqlB
    /\ db.last_sql = apply_row_limit(SqlB, ui.backend, ui.max_rows_ui)

(***************************************************************************)
(* C5                                                                      *)
(***************************************************************************)
\* C5: in a DATA_QA run, once the safety check of the generated plan has run
\* on a backend-selected SQL that has a violation, the run has ended with
\* status blocked and the policy's message, the execution collaborator was
\* never called, error triage was never consulted and the SQL generator was
\* called once.
C5_UnsafeGeneratedSqlBlocks ==
    (/\ DataQaRun
     /\ sql_plan # <<>>
     /\ pc # "sql_safety"
     /\ CountStep(traces, "error_triage") = 0
     /\ Validate(PlanSqlForBackend) # <<>>)
        => /\ Returned
           /\ response[1].status = "blocked"
           /\ response[1].answer = <<UnsafeUserMessage>>
           /\ safety # <<>> /\ ~safety[1].is_safe
           /\ db.calls = 0
           /\ query_result = <<>>
           /\ CountStep(traces, "sql_generator") = 1
           /\ traces[Len(traces)].step = "sql_safety_guard"

C5_Witness ==
    /\ DataQaRun /\ Returned
    /\ response[1].status = "blocked"
    /\ CountStep(traces, "error_triage") = 0
    /\ PlanSqlForBackend = SqlDel
    /\ db.calls = 0

(***************************************************************************)
(* C6                                                                      *)
(***************************************************************************)
\* C6: a DATA_QA run that has returned after an execution attempt succeeded
\* has status ok, and its trace has exactly one error_triage entry per failed
\* execution attempt, each of them a RETRY_WITH_PATCH followed by a passed
\* safety check.
C6_OkAfterRetriesWithOneTriagePerFailure ==
    (DataQaRun /\ Returned /\ db.oks >= 1)
        => /\ response[1].status = "ok"
           /\ CountStep(traces, "error_triage") = db.fails
           /\ CountStep(traces, "db_executor") = 1
           /\ OnlySafeRetries

C6_Witness ==
    /\ DataQaRun /\ Returned
    /\ response[1].status = "ok"
    /\ db.fails = 2 /\ db.oks = 1
    /\ max_retry_attempts = 3
    /\ CountStep(traces, "error_triage") = 2

(***************************************************************************)
(* C7                                                                      *)
(***************************************************************************)
\* C7 as stated: every fallback run eventually returns a response.
C7_EveryRunReturnsAResponse == <>Returned

\* a bound on the steps a run can still take: each retry loop has at most
\* max(1, max_retry_attempts) execution attempts of three steps each
LoopCap == 3 * Max(1, max_retry_attempts)

LoopLeft(at_executor, at_triage) ==
    IF at_executor THEN LoopCap - 3 * attempt
    ELSE IF at_triage THEN LoopCap - 3 * attempt + 2
    ELSE LoopCap - 3 * attempt + 1

ReportLeft == 1 + pending * (LoopCap + 2)

StepsLeft ==
    CASE pc \in {"done", "raised"} -> 0
      [] pc = "interpret_result" -> 1
      [] pc \in {"db_executor", "error_triage", "patch_safety"} ->
            2 + LoopLeft(pc = "db_executor", pc = "error_triage")
      [] pc = "sql_safety" -> 3 + LoopCap
      [] pc = "sql_generator" -> 4 + LoopCap
      [] pc = "report_next" -> ReportLeft
      [] pc \in {"report_executor", "report_triage", "report_patch_safety"} ->
            ReportLeft + 1 + LoopLeft(pc = "report_executor", pc = "report_triage")
      [] pc = "report_planner" -> 2 + ReportQueryCap * (LoopCap + 2)
      [] pc = "requirement_clarity" -> 3 + (ReportQueryCap + 1) * (LoopCap + 2)
      [] pc = "metadata_retriever" -> 4 + (ReportQueryCap + 1) * (LoopCap + 2)
      [] pc = "intent_router" -> 5 + (ReportQueryCap + 1) * (LoopCap + 2)

\* the part of C7 that holds: every step of a run, whatever the collaborators
\* answer, lowers a natural-number bound on the steps left, so the run ends
\* (with a response or with an escaping exception) and no loop repeats forever
C7_EveryStepLowersStepsLeft ==
    [][ /\ StepsLeft \in Nat
        /\ StepsLeft' \in Nat
        /\ StepsLeft' < StepsLeft
      ]_vars

(***************************************************************************)
(* C8, C9                                                                  *)
(***************************************************************************)
\* the keyword k occurs in s as a whole word, compared without case
WholeWordAt(s, i, k) ==
    /\ i + Len(k) - 1 <= Len(s)
    /\ Lower(SubSeq(s, i, i + Len(k) - 1)) = k
    /\ (i = 1 \/ ~IsWordChar(s[i - 1]))
    /\ (i + Len(k) > Len(s) \/ ~IsWordChar(s[i + Len(k)]))

ContainsDenylistedWord(s) ==
    \E n \in 1..Len(_DENY_KEYWORDS) : \E i \in 1..Len(s) :
        WholeWordAt(s, i, _DENY_KEYWORDS[n])

\* C8: validate returns a non-empty list for every text that contains a
\* denylisted keyword as a whole word, in any case.
C8_DenylistedWordIsAViolation ==
    (call.fn = "validate" /\ ret.done /\ ContainsDenylistedWord(call.sql))
        => ret.violations # <<>>

C8_Witness ==
    /\ call.fn = "validate" /\ ret.done
    /\ ContainsDenylistedWord(call.sql)
    /\ ret.violations = <<"DDL/DML or unsafe keyword detected">>
    /\ \E i \in 1..Len(call.sql) : call.sql[i] \in UpperSet /\ i > 1

\* the text begins, after leading whitespace, with select or with (any case)
BeginsWithSelectOrWith(s) ==
    \E i \in 1..Len(s) :
        /\ \A j \in 1..(i - 1) : IsSpace(s[j])
        /\ \/ i + 5 <= Len(s) /\ Lower(SubSeq(s, i, i + 5)) = <<"s","e","l","e","c","t">>
           \/ i + 3 <= Len(s) /\ Lower(SubSeq(s, i, i + 3)) = <<"w","i","t","h">>

\* no comment marker anywhere
NoCommentMarker(s) ==
    \A i \in 1..(Len(s) - 1) :
        <<s[i], s[i + 1]>> \notin {<<"-","-">>, <<"/","*">>, <<"*","/">>}

\* a semicolon occurs only as the terminator: nothing but whitespace after it
SemicolonOnlyAsTerminator(s) ==
    \A i \in 1..Len(s) : s[i] = ";" => \A j \in (i + 1)..Len(s) : IsSpace(s[j])

\* C9: validate returns the empty list for every text that begins with SELECT
\* or WITH and has no denylisted word, no comment marker and no semicolon
\* other than one trailing terminator.
C9_CleanSelectHasNoViolation ==
    (/\ call.fn = "validate" /\ ret.done
     /\ BeginsWithSelectOrWith(call.sql)
     /\ ~ContainsDenylistedWord(call.sql)
     /\ NoCommentMarker(call.sql)
     /\ SemicolonOnlyAsTerminator(call.sql))
        => ret.violations = <<>>

C9_Witness ==
    /\ call.fn = "validate" /\ ret.done
    /\ BeginsWithSelectOrWith(call.sql)
    /\ ~ContainsDenylistedWord(call.sql)
    /\ NoCommentMarker(call.sql)
    /\ SemicolonOnlyAsTerminator(call.sql)
    /\ call.sql[Len(call.sql)] = ";"
    /\ call.sql[1] = " "
    /\ ret.violations = <<>>

(***************************************************************************)
(* C10                                                                     *)
(***************************************************************************)
\* C10: truncate_result returns at most max_cols columns and at most max_rows
\* rows, and truncated is true exactly when the input had more than max_cols
\* columns or more than max_rows rows.
C10_TruncationWithinCaps ==
    (call.fn = "truncate_result" /\ ret.done)
        => /\ Len(ret.columns) <= call.max_cols
           /\ Len(ret.rows) <= call.max_rows
           /\ ret.truncated = (Len(call.columns) > call.max_cols
                               \/ Len(call.rows) > call.max_rows)

C10_Witness ==
    /\ call.fn = "truncate_result" /\ ret.done
    /\ Len(call.columns) = call.max_cols
    /\ Len(call.rows) = call.max_rows + 1
    /\ call.max_rows >= 1
    /\ ret.truncated
    /\ Len(ret.rows) = call.max_rows

(***************************************************************************)
(* C11, C12                                                                *)
(***************************************************************************)
\* C11 as stated: apply_row_limit applied to its own output, with the same
\* backend and max_rows, returns that output unchanged.
C11_ApplyRowLimitIdempotent ==
    (call.fn = "apply_row_limit" /\ ret.applied = 2) => ret.again = ret.text

\* the run that refutes C11: a statement SqlPolicy accepts, whose terminator
\* follows a blank; the first output keeps the blank, the second strips it
C11_SecondApplicationStripsMore ==
    /\ call.fn = "apply_row_limit" /\ ret.applied = 2
    /\ Validate(call.sql) = <<>>
    /\ ret.again # ret.text
    /\ ret.again = Strip(ret.text)
    /\ apply_row_limit(ret.again, call.backend, call.max_rows) = ret.again

\* the text ends with the suffix p
EndsWith(s, p) ==
    Len(s) >= Len(p) /\ SubSeq(s, Len(s) - Len(p) + 1, Len(s)) = p

\* the clauses C12 names, for the cap n
TopClause(n) ==
    <<"S","E","L","E","C","T"," ","T","O","P"," ","(">> \o IntToStr(n) \o <<")"," ">>

LimitClause(n) == <<" ","L","I","M","I","T"," ">> \o IntToStr(n)

\* C12 as stated, for the statements SqlPolicy accepts: when the statement has
\* no row-limiting clause of the backend, the output begins with
\* SELECT TOP (max_rows) for sqlserver and ends with LIMIT max_rows for sqlite.
C12_RowLimitInjected ==
    (/\ call.fn = "apply_row_limit" /\ ret.applied >= 1
     /\ Validate(call.sql) = <<>>)
        => /\ (call.backend = "sqlserver" /\ ~TopSearch(call.sql))
                => StartsWith(ret.text, TopClause(call.max_rows))
           /\ (call.backend = "sqlite" /\ ~LimitSearch(call.sql))
                => EndsWith(ret.text, LimitClause(call.max_rows))

\* the sqlite half of C12, which holds for every text
C12_LimitAppendedForSqlite ==
    (/\ call.fn = "apply_row_limit" /\ ret.applied >= 1
     /\ call.backend = "sqlite" /\ ~LimitSearch(call.sql))
        => EndsWith(ret.text, LimitClause(call.max_rows))

\* the run that refutes C12: a WITH statement for sqlserver comes back with no
\* TOP clause at all
C12_WithStatementLeftUnlimited ==
    /\ call.fn = "apply_row_limit" /\ ret.applied >= 1
    /\ call.backend = "sqlserver"
    /\ Validate(call.sql) = <<>>
    /\ StartsWith(Lower(call.sql), <<"w","i","t","h">>)
    /\ ~TopSearch(call.sql)
    /\ ~TopSearch(ret.text)
    /\ ret.text = call.sql


(***************************************************************************)
(* C13                                                                     *)
(***************************************************************************)
\* C13: every QueryResult the execution step stores has row_count_returned
\* equal to its number of rows, at most max_rows_ui rows and at most
\* max_cols_ui columns, whatever table the database collaborator returned.
C13_QueryResultWithinCaps ==
    query_result # <<>> =>
        /\ query_result[1].row_count_returned = Len(query_result[1].rows)
        /\ Len(query_result[1].rows) <= ui.max_rows_ui
        /\ Len(query_result[1].columns) <= ui.max_cols_ui

C13_Witness ==
    /\ query_result # <<>>
    /\ db.oks = 1
    /\ query_result[1].truncated
    /\ query_result[1].row_count_returned = ui.max_rows_ui
    /\ Len(query_result[1].columns) = ui.max_cols_ui


(***************************************************************************)
(* C14, C15, C16                                                           *)
(***************************************************************************)
\* the text of the timeout failure
TimeoutError == <<"Visualization code timed out after ", IntToStr(VizTimeout), "s">>

\* C14: when the code has an import statement or another static finding, no
\* statement of it is ever executed and the result run_viz_code returns is a
\* failure; execution starts only for code without a static finding.
C14_RejectedCodeIsNeverExecuted ==
    /\ viz.code.static # "clean" =>
          /\ viz.executed = 0
          /\ viz.worker # "executing"
          /\ viz.pc = "returned" =>
                /\ Len(viz.results) = 1
                /\ ~viz.results[1].ok
                /\ viz.results[1].error # NoneStr
                /\ viz.results[1].fig = NoneStr
    /\ \A i \in 1..Len(viz.queue) : viz.code.static # "clean" => ~viz.queue[i].ok

C14_Witness ==
    /\ viz.pc = "returned"
    /\ viz.code.static = "import_from"
    /\ viz.code.run = "finishes"
    /\ viz.executed = 0
    /\ viz.results[1].error = <<"Imports are not allowed in visualization code.">>

\* the part of C15 that holds: when the worker is found running after the
\* timed join, the result is the timeout failure
C15_TimeoutFailureReturned ==
    (viz.pc = "returned" /\ viz.found_running)
        => /\ Len(viz.results) = 1
           /\ ~viz.results[1].ok
           /\ viz.results[1].error = TimeoutError

\* C15 as stated: when the worker is found running after the timed join, the
\* result is the timeout failure and the worker process is not running when
\* run_viz_code returns.
C15_TimedOutWorkerIsStopped ==
    /\ C15_TimeoutFailureReturned
    /\ (viz.pc = "returned" /\ viz.found_running) => ~WorkerAlive

\* the run that refutes C15: terminate() and join(1) are done, the timeout
\* failure is returned, and the worker, which ignores SIGTERM, still runs
C15_WorkerOutlivesTheCall ==
    /\ viz.pc = "returned"
    /\ viz.found_running /\ viz.term_sent
    /\ viz.results[1].error = TimeoutError
    /\ viz.code.run = "loops"
    /\ viz.worker = "executing"

NoSuitableData ==
    /\ orch.ans # <<>>
    /\ \/ orch.intent_key \in IntentKinds \ {"good"}
       \/ orch.intent_key = "None" /\ ~orch.ans[1].ok

\* C17: when the available-data lane finds no suitable dataset or metric,
\* the run has returned a response of status need_confirmation that asks
\* whether to search elsewhere, and the fallback lane was not invoked: no
\* fallback run, no SQL plan, no database call.
C17_NoDataAsksToSearchElsewhere ==
    NoSuitableData =>
        /\ Returned
        /\ response[1].status = "need_confirmation"
        /\ response[1].answer = AskSearchElsewhere(<<>>).answer
        /\ ~response[1].has_result
        /\ orch.fallback_runs = 0
        /\ sql_plan = <<>>
        /\ db = NoDbCalls

\* the intent's dataset lacks a required column and the run asked
C17_Witness ==
    /\ orch.intent_key = "missing_columns"
    /\ orch.ans # <<>>
    /\ Returned
    /\ response[1].status = "need_confirmation"

\* no match for a free question, and the run asked
C17_FreeQuestionWitness ==
    /\ orch.intent_key = "None"
    /\ NoSuitableData
    /\ Returned

(***************************************************************************)
(* C18: the fallback lane needs the confirmation flag                      *)
(***************************************************************************)
\* the request is in the fallback lane: FallbackOrchestrator.run was called,
\* or one of its steps has left something behind
InFallbackLane ==
    \/ orch.fallback_runs > 0
    \/ pc \in {"intent_router", "metadata_retriever", "requirement_clarity",
               "sql_generator", "report_planner"}
    \/ intent # "None"
    \/ grounding # "None"
    \/ sql_plan # <<>>
    \/ safety # <<>>
    \/ db # NoDbCalls
    \/ executed # <<>>

\* C18: the fallback lane (FallbackOrchestrator.run, and with it SQL
\* generation and database execution) is entered only if the request
\* carries the confirmation flag set, and then only once.
C18_FallbackOnlyOnConfirmation ==
    InFallbackLane =>
        /\ orch.confirm = "True"
        /\ ~orch.greeting
        /\ orch.fallback_runs = 1

\* a confirmed request whose fallback run has called the database
C18_Witness ==
    /\ orch.confirm = "True"
    /\ orch.fallback_runs = 1
    /\ db.calls > 0

(***************************************************************************)
(* C19: traces are returned only in debug mode                             *)
(***************************************************************************)
\* C19: whatever response Orchestrator.run or FallbackOrchestrator.run
\* returns, it carries traces only if req.ui.debug is set; without debug
\* the traces are None.
C19_TracesOnlyInDebug ==
    response # <<>> =>
        /\ response[1].traces.present => ui.debug
        /\ ~ui.debug => response[1].traces.entries = <<>>

\* a debug request answered by the fallback lane with its traces
C19_Witness ==
    /\ Returned
    /\ ui.debug
    /\ orch.fallback_runs = 1
    /\ response[1].traces.present
    /\ response[1].traces.entries = traces

\* a request without debug answered by the available-data lane without traces
C19_NoDebugWitness ==
    /\ Returned
    /\ ~ui.debug
    /\ orch.ans # <<>>
    /\ traces # <<>>
    /\ ~response[1].traces.present

(***************************************************************************)
(* C20: a failing collaborator call in a fallback run                      *)
(***************************************************************************)
\* a call of the search collaborator or of a language-model collaborator
\* has failed during the run
CollaboratorFailed == pc = "raised"

\* C20 as stated: when a search or language-model collaborator call fails
\* during a fallback run, the run returns a response of status error and
\* the trace records the failure; the failure does not leave run().
C20_CollaboratorFailureIsReturned ==
    CollaboratorFailed =>
        /\ response # <<>>
        /\ response[1].status = "error"
        /\ traces # <<>>
        /\ traces[Len(traces)].step = "error"

\* what the code does instead: the failure leaves run() with no response,
\* and the trace holds only the steps that completed before it
C20_FailureEscapesWithoutResponse ==
    CollaboratorFailed =>
        /\ response = <<>>
        /\ \A i \in 1..Len(traces) : traces[i].step # "error"

\* the intent_router call, the first step of the run, has failed
C20_FailedRun ==
    /\ CollaboratorFailed
    /\ intent = "None"
    /\ traces = <<>>

(***************************************************************************)
(* C21: no raw error text in blocked and need_clarification answers        *)
(***************************************************************************)
\* the texts of the exceptions the retry loops catch (str(e))
ErrorTexts == {"ToolError", "db_error", "NameError"}

\* the messages fixed by the code and by the safety guard
PolicyMessages ==
    {<<"I need a bit more detail">>, <<"I need more detail.">>,
     <<UnsafeUserMessage>>, <<"Blocked by SQL safety policy.">>,
     <<"Patched SQL blocked by policy.">>}

\* the user_message texts of the error_triage agent's answers
TriageMessages == {<<a.user_message>> : a \in {b \in TriageAnswers : b.user_message # "None"}}

\* C21: the answer of every response of status blocked or need_clarification
\* is one of the fixed policy messages or the triage agent's user_message,
\* and no piece of it is the text of an exception raised by the executor.
C21_NoRawErrorInBlockedOrClarification ==
    (response # <<>> /\ response[1].status \in {"blocked", "need_clarification"}) =>
        /\ response[1].answer \in PolicyMessages \cup TriageMessages
        /\ \A i \in 1..Len(response[1].answer) : response[1].answer[i] \notin ErrorTexts

\* an execution failed with a database error, triage asked for clarification
\* and the answer is the triage agent's message
C21_Witness ==
    /\ Returned
    /\ response[1].status = "need_clarification"
    /\ db.fails > 0
    /\ response[1].answer \in TriageMessages

\* a patched plan was blocked after a failed execution
C21_BlockedWitness ==
    /\ Returned
    /\ response[1].status = "blocked"
    /\ db.fails > 0
    /\ response[1].answer = <<"Patched SQL blocked by policy.">>

(***************************************************************************)
(* C22: a failing sub-query of a report                                    *)
(***************************************************************************)
\* the run is in the report branch with its plan made
ReportPlanned == CountStep(traces, "report_planner") = 1

\* the executed entries that record an error
ExecutedErrors == {i \in 1..Len(executed) : executed[i].outcome = "error"}

\* C22 as stated: in the ANALYTICS_REPORT branch a failing sub-query
\* (blocked, execution error, any triage outcome) is recorded as that
\* sub-query's error and the remaining sub-queries are still processed: a
\* planned report returns only when no sub-query is left, as the ok report.
C22_SubQueryFailureDoesNotHaltTheReport ==
    (ReportPlanned /\ Returned) =>
        /\ pending = 0
        /\ response[1].status = "ok"

\* what holds in the code: a planned report that returns anything but the ok
\* report was ended by a triage answer ASK_CLARIFICATION, and the failing
\* sub-query has no entry in the executed list
C22_OnlyAskClarificationHaltsTheReport ==
    (ReportPlanned /\ Returned /\ response[1].status # "ok") =>
        /\ response[1].status = "need_clarification"
        /\ traces[Len(traces)] = [step |-> "error_triage", payload |-> "ASK_CLARIFICATION"]

\* a report of two sub-queries ended by the triage of the first: the second
\* was never checked or executed, and the first has no error entry
C22_ReportCutShort ==
    /\ ReportPlanned
    /\ Returned
    /\ pending = 1
    /\ executed = <<>>
    /\ CountStep(traces, "sql_safety_guard") = 1

\* blocked by policy, then the next sub-query was still checked
C22_BlockedSubQueryRecorded ==
    /\ ReportPlanned
    /\ Len(executed) = 2
    /\ executed[1].error = "Blocked by SQL policy"
    /\ CountStep(traces, "sql_safety_guard") >= 2

(***************************************************************************)
(* C23: the clarity check                                                  *)
(***************************************************************************)
\* the clarity check has been made (it is the third step of a run)
ClarityChecked == Len(traces) >= 3 /\ traces[3].step = "requirement_clarity"

\* the run ended at the clarity check with need_clarification
EndedAtClarity ==
    /\ Returned
    /\ Len(traces) = 3
    /\ response[1].status = "need_clarification"
    /\ response[1].clarifying_questions <= QuestionCap
    /\ sql_plan = <<>> /\ safety = <<>> /\ query_result = <<>>
    /\ db = NoDbCalls /\ executed = <<>>

C23_MissingVerdictWitness ==
    /\ ClarityChecked
    /\ traces[3].payload = "null"
    /\ sql_plan # <<>>

\* an is_clear that is not a boolean is taken by its truthiness: a JSON null
\* ends the run like false, a non-empty string continues it like true
C23_VerdictByTruthiness ==
    ClarityChecked =>
        /\ traces[3].payload \in {"clear", "text"} => ~EndedAtClarity
        /\ traces[3].payload = "json_null" => EndedAtClarity

(***************************************************************************)
(* C24: the triage actions that end a DATA_QA run                          *)
(***************************************************************************)
\* the last step of the run was an error triage
TriagedLast == traces # <<>> /\ traces[Len(traces)].step = "error_triage"

\* the run has ended after a failed execution below the cap, and the
\* database was not called again after the failure that was triaged
EndedAfterTriage ==
    /\ Returned
    /\ attempt < max_retry_attempts
    /\ attempt = CountStep(traces, "error_triage")
    /\ db.calls = db.fails /\ db.calls <= attempt
    /\ query_result = <<>>

\* C24: in a DATA_QA run, after an execution failure below the retry cap, a
\* triage action ASK_CLARIFICATION ends the run with need_clarification,
\* STOP ends it with error, and an answer without a recognised action (no
\* action key, an action outside the three) is handled as STOP; no further
\* execution is attempted.
C24_TriageEndsTheRun ==
    (DataQaRun /\ TriagedLast) =>
        LET a == traces[Len(traces)].payload
        IN  /\ a = "ASK_CLARIFICATION" =>
                EndedAfterTriage /\ response[1].status = "need_clarification"
            /\ a \in {"STOP", "no_key", "IGNORE"} =>
                EndedAfterTriage /\ response[1].status = "error"

\* an action outside the three ended the run with status error after the
\* second failed execution
C24_Witness ==
    /\ DataQaRun
    /\ TriagedLast
    /\ traces[Len(traces)].payload = "IGNORE"
    /\ Returned
    /\ response[1].status = "error"
    /\ db.fails = 2

\* ASK_CLARIFICATION ended the run with the triage agent's questions
C24_AskWitness ==
    /\ DataQaRun
    /\ TriagedLast
    /\ traces[Len(traces)].payload = "ASK_CLARIFICATION"
    /\ response # <<>>
    /\ response[1].status = "need_clarification"
    /\ response[1].clarifying_questions = QuestionCap

(***************************************************************************)
(* C25: one trace entry per step                                           *)
(***************************************************************************)
\* the trace name of the step the run is about to take
StepName ==
    IF pc \in {"sql_safety", "patch_safety"} THEN "sql_safety_guard" ELSE pc

\* this step appends exactly one entry, named after the step, to the log
AppendsOwnEntry ==
    /\ Len(traces') = Len(traces) + 1
    /\ SubSeq(traces', 1, Len(traces)) = traces
    /\ traces'[Len(traces')].step = StepName

\* C25 as stated: every step a fallback run completes (intent, grounding,
\* clarity, SQL generation, each safety check, each execution attempt whether
\* it succeeds or fails, each triage, interpretation) appends exactly one
\* entry to the trace, after the entries of the steps before it.
C25_EveryStepAppendsOneEntry ==
    [][ /\ pc' # "raised" => AppendsOwnEntry ]_vars

\* what the code does: a failed execution attempt appends nothing, every
\* other completed step appends its own entry
C25_FailedExecutionIsNotTraced ==
    [][ /\ (pc' # "raised" /\ ~(pc = "db_executor" /\ attempt' # attempt))
            => AppendsOwnEntry
        /\ (pc = "db_executor" /\ attempt' # attempt) => traces' = traces ]_vars

\* a run that ended with status error at the retry cap: two executions were
\* attempted and failed, and the trace has no entry of either
C25_FailuresWithoutEntry ==
    /\ DataQaRun /\ Returned
    /\ response[1].status = "error"
    /\ db.fails = 2 /\ attempt = 2
    /\ CountStep(traces, "db_executor") = 0
    /\ CountStep(traces, "error_triage") = 1

(***************************************************************************)
(* C26: the trace log of a run                                             *)
(***************************************************************************)
\* the entries appended to the tracer since the current run began
OwnEntries == SubSeq(traces, orch.trace_base + 1, Len(traces))

\* C26 as stated: the traces a run returns are exactly the entries appended
\* during that run, in append order, also for the second and later requests
\* of one Orchestrator instance.
C26_ReturnedTracesAreTheRunsOwn ==
    (Returned /\ response[1].traces.present) =>
        response[1].traces.entries = OwnEntries

\* what holds in the code: the returned traces are the whole log of the
\* instance, and the log only grows
C26_ReturnedTracesAreTheWholeLog ==
    (Returned /\ response[1].traces.present) =>
        response[1].traces.entries = traces

\* the tracer is append-only: a step keeps the entries it found
C26_LogIsAppendOnly ==
    [][ /\ Len(traces') >= Len(traces)
        /\ SubSeq(traces', 1, Len(traces)) = traces ]_vars

\* the second request of an instance got back the entries of the first
C26_SecondRunReturnsFirstRunsEntries ==
    /\ Returned
    /\ orch.requests = 2
    /\ orch.trace_base > 0
    /\ response[1].traces.present
    /\ Len(response[1].traces.entries) > Len(OwnEntries)

(***************************************************************************)
(* C27: concurrent chat turns share no request state                       *)
(***************************************************************************)
\* the steps a turn of each kind traces, in order
TurnSteps(kind) ==
    IF kind = "greeting" THEN <<"meta">>
    ELSE IF kind = "no_data" THEN <<"meta", "available_data.free">>
    ELSE <<"meta", "routing", "intent_router", "metadata_retriever",
           "requirement_clarity">>

\* C27: under any interleaving of the turns in handle_chat, a turn that has
\* returned has its own trace collector and chat context: the collector
\* holds exactly the steps of that turn, in order and appended by that turn,
\* the traces in its response are those entries, and the context holds the
\* intent that turn recorded.
C27_TurnsShareNoRequestState ==
    \A t \in DOMAIN chat.turn :
        chat.turn[t].pc = "returned" =>
            LET me == chat.turn[t]
                log == chat.tracers[me.tracer]
            IN  /\ log = [i \in 1..Len(TurnSteps(me.kind)) |->
                            [step |-> TurnSteps(me.kind)[i], by |-> t]]
                /\ me.response[1].traces.present => me.response[1].traces.entries = log
                /\ \A u \in DOMAIN chat.turn \ {t} : chat.turn[u].tracer # me.tracer
                /\ me.ctx # 0 =>
                      /\ chat.contexts[me.ctx] = [intent |-> me.intent, by |-> t]
                      /\ \A u \in DOMAIN chat.turn \ {t} : chat.turn[u].ctx # me.ctx

\* two debug turns through the fallback lane with different intents have
\* both returned, and the second built its orchestrator before the first
\* had finished
C27_Witness ==
    /\ chat.turn # <<>>
    /\ \A t \in {1, 2} :
         /\ chat.turn[t].pc = "returned"
         /\ chat.turn[t].kind = "fallback_unclear"
         /\ chat.turn[t].debug
         /\ chat.turn[t].response[1].traces.present
    /\ chat.turn[1].intent # chat.turn[2].intent
    /\ chat.turn[1].ctx = 2 /\ chat.turn[1].tracer = 1

(***************************************************************************)
(* C28: the order of the steps of a DATA_QA run                            *)
(***************************************************************************)
\* the entries the fallback run has traced, without the two entries
\* Orchestrator.run adds before the hand-over
FallbackLog ==
    IF traces # <<>> /\ traces[1].step = "meta"
    THEN SubSeq(traces, 3, Len(traces)) ELSE traces

\* the steps of a DATA_QA run in the order of the pipeline
StepOrder ==
    <<"intent_router", "metadata_retriever", "requirement_clarity",
      "sql_generator", "sql_safety_guard", "db_executor", "interpret_result">>

\* the place of a step in the pipeline; triage belongs to the execution loop
\* and sends the run back to the safety check
StepRank(step) ==
    IF step = "error_triage" THEN 5
    ELSE CHOOSE k \in 1..Len(StepOrder) : StepOrder[k] = step

\* the log follows the pipeline: its first entries are the steps in order,
\* no entry is followed by a step of an earlier place, and the steps outside
\* the retry loop occur at most once
LogInPipelineOrder ==
    LET log == FallbackLog
    IN  /\ \A i \in 1..Len(log) : i <= 5 => log[i].step = StepOrder[i]
        /\ \A i \in 1..(Len(log) - 1) : StepRank(log[i].step) <= StepRank(log[i + 1].step)
        /\ \A step \in {"intent_router", "metadata_retriever", "requirement_clarity",
                        "sql_generator", "db_executor", "interpret_result"} :
               CountStep(log, step) <= 1
        /\ \A i \in 1..Len(log) :
               log[i].step = "interpret_result" =>
                   (i > 1 /\ log[i - 1].step = "db_executor" /\ db.oks = 1)

\* C28: in a DATA_QA run the steps occur in the order intent, grounding,
\* clarity, SQL generation, safety check, execution, interpretation; intent,
\* grounding, clarity, SQL generation and interpretation happen at most
\* once; every call of the database comes right after a passed safety
\* check; interpretation comes only after an execution has succeeded.
C28_StepsInPipelineOrder ==
    [][ /\ DataQaRun' => LogInPipelineOrder'
        /\ (DataQaRun /\ DbCallStep) =>
              /\ traces # <<>>
              /\ traces[Len(traces)] = [step |-> "sql_safety_guard", payload |-> "safe"]
              /\ safety # <<>> /\ safety[1].is_safe
        /\ (DataQaRun /\ pc' = "interpret_result" /\ pc # "interpret_result") =>
              db'.oks = 1 /\ query_result' # <<>>
      ]_vars

\* a run that was interpreted after two failed executions and a third that
\* succeeded
C28_Witness ==
    /\ DataQaRun /\ Returned
    /\ response[1].status = "ok"
    /\ CountStep(traces, "interpret_result") = 1
    /\ CountStep(traces, "sql_safety_guard") = 3
    /\ db.fails = 2 /\ db.oks = 1

(***************************************************************************)
(* C29: the recorded intent                                                *)
(***************************************************************************)
\* the intent step has been taken
IntentRecorded == CountStep(traces, "intent_router") = 1

\* C29 as stated: after the intent step ctx.intent is one of DATA_QA,
\* ANALYTICS_REPORT, GENERAL_QA, OUT_OF_SCOPE (an output that is no valid
\* classification being recorded as DATA_QA).
C29_RecordedIntentIsOneOfFour ==
    IntentRecorded => intent \in Intents

\* what holds in the code: the recorded intent is the classifier's value
\* whatever it is, and DATA_QA only when there is no JSON object or no key
C29_RecordedIntentIsTheClassifiersValue ==
    [][ (pc = "intent_router" /\ pc' = "metadata_retriever") =>
            intent' \in Intents \cup {"SMALL_TALK"} ]_vars

\* the classifier answered with a label outside the four and the run went
\* on with it through SQL generation
C29_UnknownIntentRecorded ==
    /\ IntentRecorded
    /\ intent = "SMALL_TALK"
    /\ sql_plan # <<>>

(***************************************************************************)
(* C30: the branch is chosen by intent == ANALYTICS_REPORT alone           *)
(***************************************************************************)
\* positions and log entries of the two branches
ReportPcs == {"report_planner", "report_next", "report_executor",
              "report_triage", "report_patch_safety"}

ReportSteps == {"report_planner", "report_writer"}

SingleQuerySteps == {"sql_generator", "result_interpreter"}

InReportBranch ==
    \/ pc \in ReportPcs
    \/ \E k \in 1..Len(traces) : traces[k].step \in ReportSteps

InSingleQueryBranch ==
    \/ pc \in {"sql_generator", "sql_safety_guard", "db_executor",
               "error_triage", "result_interpreter"}
    \/ \E k \in 1..Len(traces) : traces[k].step \in SingleQuerySteps

\* C30: a request is in the report branch only with intent ANALYTICS_REPORT,
\* and in the single-query branch with every other intent (GENERAL_QA and
\* OUT_OF_SCOPE included); a clear request leaves the clarity check into
\* the branch its intent selects.
C30_BranchByAnalyticsReportOnly ==
    /\ InReportBranch => intent = "ANALYTICS_REPORT"
    /\ InSingleQueryBranch => intent # "ANALYTICS_REPORT"
    /\ (ClarityChecked /\ pc \notin {"done", "raised"}) =>
          IF intent = "ANALYTICS_REPORT" THEN InReportBranch
          ELSE InSingleQueryBranch

\* a GENERAL_QA or OUT_OF_SCOPE request whose SQL was run on the database
C30_Witness ==
    /\ intent \in {"GENERAL_QA", "OUT_OF_SCOPE"}
    /\ ClarityChecked
    /\ query_result # <<>>

\* an ANALYTICS_REPORT request that planned its sub-queries
C30_ReportWitness ==
    /\ intent = "ANALYTICS_REPORT"
    /\ CountStep(traces, "report_planner") = 1

(***************************************************************************)
(* C31: a sub-query of a report whose execution succeeds                   *)
(***************************************************************************)
\* C31 as stated: once db_executor has returned for the current sub-query
\* of a report, the sub-query's entry in the executed list is a non-error
\* entry and the executor has returned for it exactly once.
C31_SuccessfulSubQueryIsRecorded ==
    (ReportPlanned /\ db.oks >= 1) =>
        /\ db.oks = 1
        /\ Len(executed) >= 1
        /\ executed[Len(executed)].outcome # "error"

\* what holds in the code: building the entry raises NameError, so the
\* executed list of a report holds error entries only
C31_ExecutedListHoldsErrorsOnly ==
    ReportPlanned => ExecutedErrors = 1..Len(executed)

\* the executor returned twice for one sub-query, which is recorded with
\* the NameError as its error
C31_SuccessRecordedAsError ==
    /\ ReportPlanned
    /\ db.oks = 2
    /\ db.fails = 0
    /\ executed = <<[outcome |-> "error", error |-> "NameError"]>>

(***************************************************************************)
(* C32: the bounds of a report run                                         *)
(***************************************************************************)
\* sub-queries of the plan taken so far: those with an entry, and the one in
\* its retry loop
InRetryLoop == pc \in {"report_executor", "report_triage", "report_patch_safety"}

SubQueriesTaken == Len(executed) + (IF InRetryLoop THEN 1 ELSE 0)

\* the number of sub-queries and the statuses of a report run
ReportCountAndStatus ==
    /\ SubQueriesTaken + pending <= ReportQueryCap
    /\ SubQueriesTaken <= CountStep(traces, "sql_safety_guard")
    /\ Returned => response[1].status \in {"ok", "need_clarification"}

\* C32: a report processes at most 5 sub-queries, makes at most
\* max_retry_attempts execution attempts for each sub-query, and ends only
\* with status ok or need_clarification.
C32_ReportIsBounded ==
    ReportPlanned =>
        /\ ReportCountAndStatus
        /\ db.calls <= max_retry_attempts

\* what holds in the code: the first attempt is made before the cap is read,
\* and every attempt of a sub-query counts as a failed one
C32_ReportIsBoundedByMaxOrOne ==
    ReportPlanned =>
        /\ ReportCountAndStatus
        /\ db.calls <= Max(1, max_retry_attempts)
        /\ (InRetryLoop => attempt = db.calls)

\* under a cap of 0 all five sub-queries taken from a plan of six were
\* executed once each
C32_OneAttemptEachUnderCapZero ==
    /\ ReportPlanned
    /\ Returned
    /\ max_retry_attempts = 0
    /\ Len(executed) = ReportQueryCap
    /\ db.calls = 1
    /\ CountStep(traces, "sql_safety_guard") = ReportQueryCap

(***************************************************************************)
(* C33: the safe SQL strings of a safe report                              *)
(***************************************************************************)
SafeReport == safety # <<>> /\ safety[1].is_safe

\* C33 as stated: in a SafetyReport with is_safe = true both safe SQL
\* strings, the one of the selected backend and the one of the other
\* backend, are texts in which SqlPolicy.validate finds no violation.
C33_BothSafeSqlStringsPassThePolicy ==
    SafeReport =>
        /\ Validate(safety[1].safe_sql_server) = <<>>
        /\ Validate(safety[1].safe_sql_sqlite) = <<>>

\* what holds in the code: the string of the selected backend passes
C33_SelectedSafeSqlPassesThePolicy ==
    SafeReport => Validate(SafeSqlFor(safety[1], ui.backend)) = <<>>

\* an ok response on sqlite that carries a DELETE as its SQL Server text
C33_OkResponseCarriesUnvalidatedSql ==
    /\ Returned
    /\ response[1].status = "ok"
    /\ ui.backend = "sqlite"
    /\ Validate(response[1].sql_sqlite) = <<>>
    /\ response[1].sql_server = apply_row_limit(SqlDel, "sqlserver", ui.max_rows_ui)
    /\ Validate(response[1].sql_server) # <<>>

(***************************************************************************)
(* C34: what RETRY_WITH_PATCH changes in the plan                          *)
(***************************************************************************)
\* the step that applies a triage answer RETRY_WITH_PATCH, in either branch
PatchApplied ==
    /\ pc \in {"error_triage", "report_triage"}
    /\ pc' \in {"patch_safety", "report_patch_safety"}

\* the plan's text of one dialect after a patch: the patch when the triage
\* object supplies a non-empty one, the previous text otherwise
PatchedText(previous, patch) ==
    IF patch = NoneStr \/ Len(patch) = 0 THEN previous ELSE patch

\* the triage entry behind the retry that the executor is about to make
RetryTriageEntry == traces[Len(traces) - 1]

\* an execution attempt of the retry loop after a patch
RetryExecuted ==
    /\ pc \in {"db_executor", "report_executor"}
    /\ db.calls >= 1
    /\ db'.calls = db.calls + 1

\* C34: RETRY_WITH_PATCH replaces the plan's SQL of a dialect only by a
\* non-empty patch for that dialect and leaves used_tables and notes as they
\* were; a retry without a patch for the selected backend executes the SQL
\* that just failed once more.
C34_PatchReplacesOnlyPatchedDialects ==
    [][ /\ PatchApplied =>
            LET triage == traces'[Len(traces')]
                old == sql_plan[1]
                new == sql_plan'[1]
            IN  /\ triage.step = "error_triage"
                /\ triage.payload = "RETRY_WITH_PATCH"
                /\ new.sql_server = PatchedText(old.sql_server, triage.patched_sql_server)
                /\ new.sql_sqlite = PatchedText(old.sql_sqlite, triage.patched_sql_sqlite)
                /\ new.used_tables = old.used_tables
                /\ new.notes = old.notes
        /\ RetryExecuted =>
            /\ RetryTriageEntry.step = "error_triage"
            /\ PatchedText(<<>>, SelectedSql([sql_server |-> RetryTriageEntry.patched_sql_server,
                                              sql_sqlite |-> RetryTriageEntry.patched_sql_sqlite],
                                             ui.backend)) = <<>>
                  => db'.last_sql = db.last_sql
      ]_vars

\* a retry whose triage patched only the other backend's SQL: the plan's
\* text for that backend changed and the failed SQL was executed again
C34_Witness ==
    /\ ui.backend = "sqlite"
    /\ db.calls = 2
    /\ db.fails >= 1
    /\ Len(traces) >= 2
    /\ RetryTriageEntry.step = "error_triage"
    /\ RetryTriageEntry.payload = "RETRY_WITH_PATCH"
    /\ RetryTriageEntry.patched_sql_server = SqlB
    /\ RetryTriageEntry.patched_sql_sqlite \in {NoneStr, <<>>}
    /\ sql_plan[1].sql_server = SqlB
    /\ sql_plan[1].sql_sqlite = SqlA
    /\ sql_plan[1].used_tables = "generated"

\* a retry whose triage patched the selected backend's SQL
C34_PatchedWitness ==
    /\ ui.backend = "sqlite"
    /\ db.calls = 2
    /\ sql_plan[1].sql_sqlite = SqlB
    /\ db.last_sql = apply_row_limit(SqlB, "sqlite", ui.max_rows_ui)

(***************************************************************************)
(* C35: the first keyword of a validated text                              *)
(***************************************************************************)
\* the first keyword of a text: the run of word characters at the start of
\* the text without its leading whitespace, in lower case
FirstKeyword(sql) ==
    LET s == Strip(sql)
        stops == {i \in 1..Len(s) : ~IsWordChar(s[i])}
        end == IF stops = {} THEN Len(s)
               ELSE (CHOOSE i \in stops : \A j \in stops : i <= j) - 1
    IN  Lower(SubSeq(s, 1, end))

ReadOnlyKeywords == {<<"s","e","l","e","c","t">>, <<"w","i","t","h">>}

ValidatedNonEmpty ==
    /\ call.fn = "validate"
    /\ ret.done
    /\ Strip(call.sql) # <<>>

\* C35: validate reports a violation for every non-empty text whose first
\* keyword, after leading whitespace and ignoring case, is not exactly
\* SELECT or WITH.
C35_FirstKeywordMustBeSelectOrWith ==
    (ValidatedNonEmpty /\ FirstKeyword(call.sql) \notin ReadOnlyKeywords)
        => ret.violations # <<>>

\* what holds in the code: the violation is reported for every text whose
\* first keyword does not begin with the letters of SELECT or WITH
C35_FirstKeywordMustBeginWithSelectOrWith ==
    (/\ ValidatedNonEmpty
     /\ \A k \in ReadOnlyKeywords : ~StartsWith(FirstKeyword(call.sql), k))
        => \E i \in 1..Len(ret.violations) :
              ret.violations[i] = "Only SELECT queries are allowed"

\* a text whose first keyword is longer than SELECT passes the policy
C35_LongerKeywordPasses ==
    /\ ValidatedNonEmpty
    /\ FirstKeyword(call.sql) = <<"s","e","l","e","c","t","a">>
    /\ ret.violations = <<>>

(***************************************************************************)
(* C37: when run_viz_code reports the timeout                              *)
(***************************************************************************)
\* run_viz_code returned the timeout failure
TimeoutReported ==
    /\ viz.pc = "returned"
    /\ Len(viz.results) = 1
    /\ viz.results[1].error = TimeoutError

\* when the timed join returned, _worker had put the outcome of the code on
\* the queue: the code was rejected, raised or finished within the timeout
FinishedWithinTimeout ==
    /\ viz.at_join \in {"done", "exited"}
    /\ viz.executed = 0 \/ viz.code.run # "loops"

\* C37: the timeout failure is reported only for code that did not finish
\* within timeout_seconds; code that finished within the timeout (with a
\* figure, a static rejection or an exception) is reported with its own
\* outcome.
C37_TimeoutOnlyForUnfinishedCode ==
    (viz.pc = "returned" /\ FinishedWithinTimeout) =>
        /\ ~TimeoutReported
        /\ viz.results[1].ok = (ValidateAst(viz.code) = NoneStr /\ viz.code.run = "finishes")

\* what holds in the code: the timeout is reported exactly when the worker
\* process is found alive after the timed join, and a worker process that
\* has ended by then is reported with the outcome of its code
C37_TimeoutOnlyForRunningProcess ==
    /\ TimeoutReported <=> (viz.pc = "returned" /\ viz.found_running)
    /\ (viz.pc = "returned" /\ viz.at_join = "exited") =>
          /\ ~TimeoutReported
          /\ viz.results[1].ok = (ValidateAst(viz.code) = NoneStr /\ viz.code.run = "finishes")

\* the code finished and its figure was on the queue when the timed join
\* returned, the worker process had not ended yet, and the call reported a
\* timeout
C37_FinishedCodeReportedAsTimeout ==
    /\ TimeoutReported
    /\ viz.at_join = "done"
    /\ viz.code.static = "clean"
    /\ viz.code.run = "finishes"
    /\ viz.queue = <<WorkerOut(TRUE, NoneStr, PickFig(viz.code))>>

(***************************************************************************)
(* C36: a failing sandbox in an available-data turn                        *)
(***************************************************************************)
\* the turn went through the chart step of the available-data lane
ChartStepDone == orch.sandbox_out # "None"

\* run_viz_code returned a result that is not ok: the code was rejected, it
\* raised, or it timed out
SandboxFailed == orch.sandbox_out \in {"rejected", "raised", "timed_out"}

\* C36: the sandbox is invoked at most once in a turn; after a rejection, an
\* exception of the code or a timeout it is not invoked again, the default
\* renderer is called once instead, and the response of the turn has status
\* ok.
C36_SandboxFailureFallsBackToDefaultChart ==
    /\ orch.sandbox_runs <= 1
    /\ orch.render_runs <= 1
    /\ (ChartStepDone /\ SandboxFailed) =>
          /\ orch.sandbox_runs = 1
          /\ orch.render_runs = 1
          /\ orch.fig \in {"default", "None"}
          /\ CountStep(traces, "viz_sandbox_error") = 1
          /\ Returned =>
                /\ response[1].status = "ok"
                /\ response[1].report_blocks[1].fig = orch.fig
    /\ (ChartStepDone /\ orch.sandbox_out = "sandbox_ok") =>
          /\ orch.render_runs = 0
          /\ orch.fig = "sandbox"

\* a turn whose code timed out in the sandbox and whose response carries
\* the default chart
C36_Witness ==
    /\ Returned
    /\ orch.sandbox_out = "timed_out"
    /\ orch.sandbox_runs = 1
    /\ orch.render_runs = 1
    /\ response[1].status = "ok"
    /\ response[1].report_blocks[1].fig = "default"

\* the default renderer raised after a rejection: the turn is still ok
C36_RendererRaisedWitness ==
    /\ Returned
    /\ orch.sandbox_out = "rejected"
    /\ orch.fig = "None"
    /\ CountStep(traces, "viz_error") = 1
    /\ response[1].status = "ok"

(***************************************************************************)
(* C38: the table block stays within the caps                              *)
(***************************************************************************)
\* the response of a turn answered from the available datasets
TableReturned ==
    /\ Returned
    /\ orch.table # <<>>
    /\ response[1].status = "ok"
    /\ "report_blocks" \in DOMAIN response[1]

====
